---- MODULE Spec2Model ----
(***************************************************************************)
(* Verification model of the T Language Compiler front end.                *)
(*                                                                         *)
(* Part 1: the recursive-descent parser of src/src/main/parser/parser.c    *)
(* (panicTopLevel, the context-ignorant and the top-level parsers,         *)
(* parseFile and the driver parse()).  Every C function is an operator     *)
(* that threads the FileListEntry it works on; the loops of parseImports,  *)
(* parseBodies and parse() are the actions of the state machine.           *)
(*                                                                         *)
(* The lexer (lex, unLex, lexerStateInit) is not part of the sources; it   *)
(* is modelled from the specification's token contract: a lazy sequence    *)
(* of tokens ended by EOF, with a one-token pushback.                      *)
(***************************************************************************)
EXTENDS Naturals, Integers, Sequences, FiniteSets, TLC

VARIABLES fileList, idx, pc, errored, retval, module, imports, bodies, last,
          asts, fragmentMap, call, returned

vars == <<fileList, idx, pc, errored, retval, module, imports, bodies, last,
          asts, fragmentMap, call, returned>>

\* the state of the parser, and the state of the passes after it
parserVars == <<fileList, errored, retval, module, imports, bodies, last>>

translateVars == <<asts, fragmentMap, call, returned>>

(***************************************************************************)
(* Bounds of the model                                                     *)
(***************************************************************************)
\* number of top-level phrases after the module header of a file
MaxForms == 2
\* number of arbitrary tokens after the module header of a file
MaxRaw == 1
\* length of the token streams the subparsers are applied to in isolation
MaxSubLen == 3
\* number of files handed to parse() in one run
MaxFiles == 2

(***************************************************************************)
(* Token kinds (TokenType).  The keyword and punctuation kinds the parser  *)
(* switches on, and three kinds it never names (TT_IF, TT_CONST, TT_PLUS)  *)
(* standing for the rest of the enumeration.                               *)
(***************************************************************************)
TypeKeywords == {"TT_VOID", "TT_UBYTE", "TT_BYTE", "TT_CHAR", "TT_USHORT",
                 "TT_SHORT", "TT_UINT", "TT_INT", "TT_WCHAR", "TT_ULONG",
                 "TT_LONG", "TT_FLOAT", "TT_DOUBLE", "TT_BOOL"}

TokenTypes == {"TT_EOF", "TT_MODULE", "TT_IMPORT", "TT_OPAQUE", "TT_STRUCT",
               "TT_UNION", "TT_ENUM", "TT_TYPEDEF", "TT_IF", "TT_CONST",
               "TT_SEMI", "TT_COMMA", "TT_LPAREN", "TT_RPAREN", "TT_LBRACE",
               "TT_RBRACE", "TT_PLUS", "TT_EQ", "TT_SCOPE", "TT_ID"}
              \cup TypeKeywords

\* the labels of the 'unread and return' arm of panicTopLevel's switch
PanicUnreadTypes == {"TT_MODULE", "TT_IMPORT", "TT_VOID", "TT_UBYTE", "TT_CHAR",
                     "TT_USHORT", "TT_UINT", "TT_INT", "TT_WCHAR", "TT_ULONG",
                     "TT_LONG", "TT_FLOAT", "TT_DOUBLE", "TT_BOOL", "TT_ID",
                     "TT_OPAQUE", "TT_STRUCT", "TT_UNION", "TT_ENUM",
                     "TT_TYPEDEF", "TT_EOF"}

\* the labels of the declaration arm of parseBodies' switch
BodiesDeclStartTypes == {"TT_VOID", "TT_UBYTE", "TT_CHAR", "TT_USHORT", "TT_UINT",
                         "TT_INT", "TT_WCHAR", "TT_ULONG", "TT_LONG", "TT_FLOAT",
                         "TT_DOUBLE", "TT_BOOL", "TT_ID"}

\* the labels of the argument arm of finishFunDecl's switch
FunDeclArgStartTypes == {"TT_VOID", "TT_UBYTE", "TT_CHAR", "TT_USHORT", "TT_UINT",
                         "TT_INT", "TT_WCHAR", "TT_ULONG", "TT_LONG", "TT_FLOAT",
                         "TT_DOUBLE", "TT_BOOL", "TT_ID"}

\* the labels of the field arm of parseStructDecl's switch
StructFieldStartTypes == {"TT_VOID", "TT_UBYTE", "TT_CHAR", "TT_USHORT", "TT_UINT",
                          "TT_INT", "TT_WCHAR", "TT_ULONG", "TT_LONG", "TT_FLOAT",
                          "TT_DOUBLE", "TT_BOOL", "TT_ID"}

\* the labels of the option arm of parseUnionDecl's switch
UnionOptionStartTypes == {"TT_VOID", "TT_UBYTE", "TT_CHAR", "TT_USHORT", "TT_UINT",
                          "TT_INT", "TT_WCHAR", "TT_ULONG", "TT_LONG", "TT_FLOAT",
                          "TT_DOUBLE", "TT_BOOL", "TT_ID"}

(***************************************************************************)
(* Tokens and the lexer.  A token is its kind and its place in the file    *)
(* (at: the index of the token in the stream, standing for line and        *)
(* character).  lexerState is the read position and the pushback slot.     *)
(* The fields diags, lastLexed, discipline and panicked of an entry are    *)
(* history: the diagnostics printed to stderr, the token the last lex      *)
(* returned, which unLex calls broke the one-token pushback discipline,    *)
(* and whether panicTopLevel was the last thing to touch the lexer.        *)
(***************************************************************************)
NoToken == [type |-> "TT_EOF", at |-> 0]

TokenAt(toks, p) ==
  IF p >= Len(toks) THEN [type |-> "TT_EOF", at |-> Len(toks)]
  ELSE [type |-> toks[p], at |-> p]

\* the index of the token the next lex returns
Cursor(entry) ==
  IF entry.lexerState.pushedBack THEN entry.lexerState.previous.at
  ELSE entry.lexerState.pos

lexerStateInit(entry) ==
  [entry EXCEPT !.lexerState = [pos |-> 1, pushedBack |-> FALSE, previous |-> NoToken]]

lex(entry) ==
  LET ls == entry.lexerState
      n == Len(entry.inputTokens)
  IN IF ls.pushedBack
     THEN [token |-> ls.previous,
           entry |-> [entry EXCEPT !.lexerState.pushedBack = FALSE,
                                   !.lastLexed = ls.previous,
                                   !.panicked = FALSE]]
     ELSE [token |-> TokenAt(entry.inputTokens, ls.pos),
           entry |-> [entry EXCEPT !.lexerState.pos = IF ls.pos > n THEN ls.pos ELSE ls.pos + 1,
                                   !.lastLexed = TokenAt(entry.inputTokens, ls.pos),
                                   !.panicked = FALSE]]

unLex(entry, token) ==
  LET ls == entry.lexerState
      after == [entry EXCEPT !.lexerState.pushedBack = TRUE,
                             !.lexerState.previous = token]
  IN [after EXCEPT !.panicked = FALSE,
                   !.discipline = @ \cup (IF ls.pushedBack THEN {"twice"} ELSE {})
                                    \cup (IF token # entry.lastLexed THEN {"stale"} ELSE {})
                                    \cup (IF Cursor(after) > Cursor(entry) THEN {"forward"} ELSE {})]

(***************************************************************************)
(* Diagnostics                                                             *)
(***************************************************************************)
errorExpectedToken(entry, expected, actual) ==
  [entry EXCEPT !.diags = @ \cup {[at |-> actual.at, expected |-> expected, found |-> actual.type]},
                !.errored = TRUE]

\* (a variant for C7: the diagnostic is printed and the flag is not set)
errorExpectedStringNoFlag(entry, expected, actual) ==
  [entry EXCEPT !.diags = @ \cup {[at |-> actual.at, expected |-> expected, found |-> actual.type]}]

errorExpectedString(entry, expected, actual) ==
  [entry EXCEPT !.diags = @ \cup {[at |-> actual.at, expected |-> expected, found |-> actual.type]},
                !.errored = TRUE]

\* the fprintf of parseStructDecl, parseUnionDecl and parseEnumDecl on an empty
\* body: 'expected at least one ...', reported at the left brace
\* (a variant for C8: the place reported is the last token read, the right brace)
errorAtLeastOneAtLastToken(entry, what, lbrace) ==
  [entry EXCEPT !.diags = @ \cup {[at |-> entry.lastLexed.at, expected |-> what,
                                   found |-> "none"]},
                !.errored = TRUE]

errorAtLeastOne(entry, what, lbrace) ==
  [entry EXCEPT !.diags = @ \cup {[at |-> lbrace.at, expected |-> what, found |-> "none"]},
                !.errored = TRUE]

(***************************************************************************)
(* Node constructors.  NULL is the null pointer.                           *)
(***************************************************************************)
NULL == [type |-> "NULL"]

createId(id) == [type |-> "NT_ID", at |-> id.at]

createScopedId(components) ==
  [type |-> "NT_SCOPEDID", at |-> components[1].at, components |-> components]

createModule(keyword, id) == [type |-> "NT_MODULE", at |-> keyword.at, id |-> id]

createImport(keyword, id) == [type |-> "NT_IMPORT", at |-> keyword.at, id |-> id]

createFile(mod, imps, bods) ==
  [type |-> "NT_FILE", at |-> mod.at, module |-> mod, imports |-> imps, bodies |-> bods]

createFunDecl(returnType, name, argTypes, argNames, argDefaults) ==
  [type |-> "NT_FUNDECL", at |-> returnType.at, returnType |-> returnType, name |-> name,
   argTypes |-> argTypes, argNames |-> argNames, argDefaults |-> argDefaults]

createVarDecl(type, names) ==
  [type |-> "NT_VARDECL", at |-> type.at, varType |-> type, names |-> names]

createVarDefn(type, names, initializers) ==
  [type |-> "NT_VARDEFN", at |-> type.at, varType |-> type, names |-> names,
   initializers |-> initializers]

createOpaqueDecl(keyword, name) ==
  [type |-> "NT_OPAQUEDECL", at |-> keyword.at, name |-> name]

createStructDecl(keyword, name, fields) ==
  [type |-> "NT_STRUCTDECL", at |-> keyword.at, name |-> name, fields |-> fields]

createUnionDecl(keyword, name, options) ==
  [type |-> "NT_UNIONDECL", at |-> keyword.at, name |-> name, options |-> options]

createEnumDecl(keyword, name, constantNames, constantValues) ==
  [type |-> "NT_ENUMDECL", at |-> keyword.at, name |-> name,
   constantNames |-> constantNames, constantValues |-> constantValues]

createTypedefDecl(keyword, originalType, name) ==
  [type |-> "NT_TYPEDEFDECL", at |-> keyword.at, originalType |-> originalType,
   name |-> name]

createKeywordType(keywordToken) == [type |-> "NT_KEYWORDTYPE", at |-> keywordToken.at]

\* a parser's result: the node it returns and the entry as it leaves it
Ret(node, entry) == [node |-> node, entry |-> entry]

\* the one element of a singleton set.  A local of a C function is bound as
\*   Only({ <the code after the local is assigned> : local \in {<its value>} })
Only(S) == CHOOSE r \in S : TRUE

(***************************************************************************)
(* The heap of syntax-tree nodes.  The field heap of an entry is history:  *)
(* the nodes createNode has allocated while the entry was parsed and the   *)
(* nodes nodeFree has destroyed, each named by its type and the position   *)
(* of the token it was made at.                                            *)
(***************************************************************************)
NodeId(node) == [type |-> node.type, at |-> node.at]

\* the nodes a node owns: its child nodes and the elements of its vectors
Children(node) ==
  CASE node.type = "NT_SCOPEDID" -> node.components
    [] node.type \in {"NT_MODULE", "NT_IMPORT"} -> <<node.id>>
    [] node.type = "NT_FILE" -> <<node.module>> \o node.imports \o node.bodies
    [] node.type = "NT_FUNDECL" ->
         <<node.returnType, node.name>> \o node.argTypes \o node.argNames
           \o node.argDefaults
    [] node.type = "NT_VARDECL" -> <<node.varType>> \o node.names
    [] node.type = "NT_VARDEFN" -> <<node.varType>> \o node.names \o node.initializers
    [] node.type = "NT_OPAQUEDECL" -> <<node.name>>
    [] node.type = "NT_STRUCTDECL" -> <<node.name>> \o node.fields
    [] node.type = "NT_UNIONDECL" -> <<node.name>> \o node.options
    [] node.type = "NT_ENUMDECL" ->
         <<node.name>> \o node.constantNames \o node.constantValues
    [] node.type = "NT_TYPEDEFDECL" -> <<node.originalType, node.name>>
    [] OTHER -> <<>>

\* createNode: the allocation every node constructor starts with
createNode(node, entry) == [entry EXCEPT !.heap.created = Append(@, NodeId(node))]

\* a parser returns a node it has just constructed
Created(node, entry) == Ret(node, createNode(node, entry))

\* nodeFree destroys a node and all it owns, and does nothing for NULL;
\* nodeVectorFree destroys the elements of a vector
RECURSIVE nodeFree(_, _)
RECURSIVE nodeVectorFree(_, _)
nodeFree(entry, node) ==
  IF node = NULL THEN entry
  ELSE nodeVectorFree([entry EXCEPT !.heap.freed = Append(@, NodeId(node))],
                      Children(node))

nodeVectorFree(entry, v) ==
  IF v = <<>> THEN entry ELSE nodeVectorFree(nodeFree(entry, Head(v)), Tail(v))

\* the error exit of a parser: the nodes it hands to nodeFree and
\* nodeVectorFree before it returns NULL
Freeing(ret, nodes) == Ret(ret.node, nodeVectorFree(ret.entry, nodes))

(***************************************************************************)
(* panicTopLevel                                                           *)
(***************************************************************************)
\* (a variant for C3: the token that ends the scan is consumed, not unread)
RECURSIVE panicTopLevelNoUnread(_)
panicTopLevelNoUnread(entry) ==
  Only({ IF l.token.type = "TT_SEMI" \/ l.token.type \in PanicUnreadTypes
         THEN [l.entry EXCEPT !.panicked = TRUE]
         ELSE panicTopLevelNoUnread(l.entry)
       : l \in {lex(entry)} })

RECURSIVE panicTopLevel(_)
panicTopLevel(entry) ==
  Only({ IF l.token.type = "TT_SEMI"
         THEN [l.entry EXCEPT !.panicked = TRUE]
         ELSE IF l.token.type \in PanicUnreadTypes
              THEN [unLex(l.entry, l.token) EXCEPT !.panicked = TRUE]
              ELSE panicTopLevel(l.entry)
       : l \in {lex(entry)} })

\* the common error exit of the context-aware parsers on a wrong token:
\* errorExpectedToken, unLex, panicTopLevel, return NULL
FailToken(entry, expected, actual) ==
  Ret(NULL, panicTopLevel(unLex(errorExpectedToken(entry, expected, actual), actual)))

\* the same with errorExpectedString
FailString(entry, expected, actual) ==
  Ret(NULL, panicTopLevel(unLex(errorExpectedString(entry, expected, actual), actual)))

(***************************************************************************)
(* Context-ignorant parsers                                                *)
(***************************************************************************)
\* the loop of parseAnyId after 'id ::' has been read
RECURSIVE parseAnyIdScoped(_, _)
parseAnyIdScoped(entry, components) ==
  Only({ IF idToken.token.type # "TT_ID"
         THEN Ret(NULL, nodeVectorFree(unLex(errorExpectedToken(idToken.entry, "TT_ID",
                                                                idToken.token),
                                             idToken.token),
                                       components))
         ELSE Only({ IF scope.token.type # "TT_SCOPE"
                     THEN Created(createScopedId(Append(components,
                                                        createId(idToken.token))),
                                  unLex(scope.entry, scope.token))
                     ELSE parseAnyIdScoped(scope.entry,
                                           Append(components, createId(idToken.token)))
                   : scope \in {lex(createNode(createId(idToken.token),
                                               idToken.entry))} })
       : idToken \in {lex(entry)} })

\* (a variant for C4: after 'id' and a token that is no '::', the id is unread)
parseAnyIdUnreadsId(entry) ==
  Only({ IF idToken.token.type # "TT_ID"
         THEN Ret(NULL, unLex(errorExpectedToken(idToken.entry, "TT_ID", idToken.token),
                              idToken.token))
         ELSE Only({ IF scope.token.type # "TT_SCOPE"
                     THEN Created(createId(idToken.token),
                                  unLex(scope.entry, idToken.token))
                     ELSE parseAnyIdScoped(createNode(createId(idToken.token), scope.entry),
                                           <<createId(idToken.token)>>)
                   : scope \in {lex(idToken.entry)} })
       : idToken \in {lex(entry)} })

parseAnyId(entry) ==
  Only({ IF idToken.token.type # "TT_ID"
         THEN Ret(NULL, unLex(errorExpectedToken(idToken.entry, "TT_ID", idToken.token),
                              idToken.token))
         ELSE Only({ IF scope.token.type # "TT_SCOPE"
                     THEN Created(createId(idToken.token),
                                  unLex(scope.entry, scope.token))
                     ELSE parseAnyIdScoped(createNode(createId(idToken.token), scope.entry),
                                           <<createId(idToken.token)>>)
                   : scope \in {lex(idToken.entry)} })
       : idToken \in {lex(entry)} })

\* (a variant for C5: the token that is no id is reported and not unread)
parseIdNoUnLex(entry) ==
  Only({ IF idToken.token.type # "TT_ID"
         THEN Ret(NULL, errorExpectedToken(idToken.entry, "TT_ID", idToken.token))
         ELSE Created(createId(idToken.token), idToken.entry)
       : idToken \in {lex(entry)} })

parseId(entry) ==
  Only({ IF idToken.token.type # "TT_ID"
         THEN Ret(NULL, unLex(errorExpectedToken(idToken.entry, "TT_ID", idToken.token),
                              idToken.token))
         ELSE Created(createId(idToken.token), idToken.entry)
       : idToken \in {lex(entry)} })

\* the three unwritten parsers: 'return NULL; // TODO: write this'
parseExtendedIntLiteral(entry) == Ret(NULL, entry)

parseLiteral(entry) == Ret(NULL, entry)

parseType(entry) == Ret(NULL, entry)

(***************************************************************************)
(* Top-level parsers                                                       *)
(***************************************************************************)
\* the end of a declaration: the semicolon, then the node is constructed; on
\* another token the parts it would have owned are freed
ExpectSemi(entry, node, parts) ==
  Only({ IF semicolon.token.type # "TT_SEMI"
         THEN Freeing(FailToken(semicolon.entry, "TT_SEMI", semicolon.token), parts)
         ELSE Created(node, semicolon.entry)
       : semicolon \in {lex(entry)} })

parseModule(entry) ==
  Only({ IF moduleKeyword.token.type # "TT_MODULE"
         THEN FailToken(moduleKeyword.entry, "TT_MODULE", moduleKeyword.token)
         ELSE Only({ IF id.node = NULL
                     THEN Ret(NULL, panicTopLevel(id.entry))
                     ELSE ExpectSemi(id.entry, createModule(moduleKeyword.token, id.node),
                                     <<id.node>>)
                   : id \in {parseAnyId(moduleKeyword.entry)} })
       : moduleKeyword \in {lex(entry)} })

parseImport(entry, importKeyword) ==
  Only({ IF id.node = NULL
         THEN Ret(NULL, panicTopLevel(id.entry))
         ELSE ExpectSemi(id.entry, createImport(importKeyword, id.node), <<id.node>>)
       : id \in {parseAnyId(entry)} })

\* finishVarDecl never inserts the ids it parses: names stays as it was passed
RECURSIVE finishVarDecl(_, _, _)
finishVarDecl(entry, type, names) ==
  Only({ IF id.node = NULL
         THEN Freeing(Ret(NULL, panicTopLevel(id.entry)), <<type>> \o names)
         ELSE Only({ CASE next.token.type = "TT_COMMA" ->
                            finishVarDecl(next.entry, type, names)
                       [] next.token.type = "TT_SEMI" ->
                            Created(createVarDecl(type, names), next.entry)
                       [] OTHER ->
                            Freeing(FailString(next.entry, "a comma or a semicolon",
                                               next.token),
                                    <<type>> \o names)
                   : next \in {lex(id.entry)} })
       : id \in {parseId(entry)} })

\* what the argument loop of finishFunDecl hands on: the vectors when the
\* closing parenthesis has been read, or the failed return.  Every failed
\* return of finishFunDecl frees returnType, name and the three vectors: the
\* loop frees the vectors as they are where it fails, finishFunDecl the rest
ArgsDone(entry, argTypes, argNames, argDefaults) ==
  [done |-> TRUE, entry |-> entry, argTypes |-> argTypes, argNames |-> argNames,
   argDefaults |-> argDefaults]

Failed(ret) == [done |-> FALSE, ret |-> ret]

\* finishFunDecl, after '= literal' of an argument
RECURSIVE finishFunDeclArgs(_, _, _, _)
finishFunDeclAfterDefault(entry, argTypes, argNames, argDefaults) ==
  Only({ CASE peek.token.type = "TT_COMMA" ->
                finishFunDeclArgs(peek.entry, argTypes, argNames, argDefaults)
           [] peek.token.type = "TT_RPAREN" ->
                ArgsDone(peek.entry, argTypes, argNames, argDefaults)
           [] OTHER ->
                Failed(Freeing(FailString(peek.entry, "a comma or a right parenthesis",
                                          peek.token),
                               argTypes \o argNames \o argDefaults))
       : peek \in {lex(entry)} })

\* finishFunDecl, after the id of an argument
finishFunDeclAfterName(entry, argTypes, argNames, argDefaults) ==
  Only({ CASE peek.token.type = "TT_EQ" ->
                Only({ IF literal.node = NULL
                       THEN Failed(Freeing(Ret(NULL, panicTopLevel(unLex(literal.entry,
                                                                        peek.token))),
                                           argTypes \o argNames \o argDefaults))
                       ELSE finishFunDeclAfterDefault(literal.entry, argTypes, argNames,
                                                      Append(argDefaults, literal.node))
                     : literal \in {parseLiteral(peek.entry)} })
           [] peek.token.type = "TT_COMMA" ->
                finishFunDeclArgs(peek.entry, argTypes, argNames, Append(argDefaults, NULL))
           [] peek.token.type = "TT_RPAREN" ->
                ArgsDone(peek.entry, argTypes, argNames, Append(argDefaults, NULL))
           [] OTHER ->
                Failed(Freeing(FailString(peek.entry,
                                          "an equals sign, a comma, or a right parenthesis",
                                          peek.token),
                               argTypes \o argNames \o argDefaults))
       : peek \in {lex(entry)} })

\* finishFunDecl, after the type of an argument
finishFunDeclAfterType(entry, argTypes, argNames, argDefaults) ==
  Only({ CASE peek.token.type = "TT_ID" ->
                finishFunDeclAfterName(createNode(createId(peek.token), peek.entry),
                                       argTypes, Append(argNames, createId(peek.token)),
                                       argDefaults)
           [] peek.token.type = "TT_COMMA" ->
                finishFunDeclArgs(peek.entry, argTypes, Append(argNames, NULL),
                                  Append(argDefaults, NULL))
           [] peek.token.type = "TT_RPAREN" ->
                ArgsDone(peek.entry, argTypes, Append(argNames, NULL),
                         Append(argDefaults, NULL))
           [] OTHER ->
                Failed(Freeing(FailString(peek.entry,
                                          "an id, a comma, or a right parenthesis",
                                          peek.token),
                               argTypes \o argNames \o argDefaults))
       : peek \in {lex(entry)} })

\* the argument loop of finishFunDecl: 'while (!doneArgs)'
finishFunDeclArgs(entry, argTypes, argNames, argDefaults) ==
  Only({ IF peek.token.type \notin FunDeclArgStartTypes
         THEN Failed(Freeing(FailString(peek.entry, "a type", peek.token),
                             argTypes \o argNames \o argDefaults))
         ELSE Only({ IF type.node = NULL
                     THEN Failed(Freeing(Ret(NULL, panicTopLevel(type.entry)),
                                         argTypes \o argNames \o argDefaults))
                     ELSE finishFunDeclAfterType(type.entry, Append(argTypes, type.node),
                                                 argNames, argDefaults)
                   : type \in {parseType(unLex(peek.entry, peek.token))} })
       : peek \in {lex(entry)} })

finishFunDecl(entry, returnType, name) ==
  Only({ IF ~args.done
         THEN Freeing(args.ret, <<returnType, name>>)
         ELSE ExpectSemi(args.entry,
                         createFunDecl(returnType, name, args.argTypes, args.argNames,
                                       args.argDefaults),
                         <<returnType, name>> \o args.argTypes \o args.argNames
                           \o args.argDefaults)
       : args \in { Only({ IF peek.token.type = "TT_RPAREN"
                           THEN ArgsDone(peek.entry, <<>>, <<>>, <<>>)
                           ELSE finishFunDeclArgs(unLex(peek.entry, peek.token),
                                                  <<>>, <<>>, <<>>)
                         : peek \in {lex(entry)} }) } })

parseFunOrVarDecl(entry, start) ==
  Only({ IF type.node = NULL
         THEN Ret(NULL, panicTopLevel(type.entry))
         ELSE Only({ IF id.node = NULL
                     THEN Freeing(Ret(NULL, panicTopLevel(id.entry)), <<type.node>>)
                     ELSE Only({ CASE next.token.type = "TT_SEMI" ->
                                        Created(createVarDecl(type.node, <<id.node>>),
                                                next.entry)
                                   [] next.token.type = "TT_COMMA" ->
                                        finishVarDecl(next.entry, type.node, <<id.node>>)
                                   [] next.token.type = "TT_LPAREN" ->
                                        finishFunDecl(next.entry, type.node, id.node)
                                   [] OTHER ->
                                        Freeing(FailString(next.entry,
                                                           "a semicolon, comma, or a left paren",
                                                           next.token),
                                                <<type.node, id.node>>)
                               : next \in {lex(id.entry)} })
                   : id \in {parseId(type.entry)} })
       : type \in {parseType(unLex(entry, start))} })

\* unwritten: 'return NULL; // TODO: write this'
finishVarDefn(entry, type, names, initializers, current) == Ret(NULL, entry)

\* unwritten: 'return NULL; // TODO: write this'
finishFunDeclOrDefn(entry, returnType, name) == Ret(NULL, entry)

parseFunOrVarDeclOrDefn(entry, start) ==
  Only({ IF type.node = NULL
         THEN Ret(NULL, panicTopLevel(type.entry))
         ELSE Only({ IF id.node = NULL
                     THEN Freeing(Ret(NULL, panicTopLevel(id.entry)), <<type.node>>)
                     ELSE Only({ CASE next.token.type = "TT_SEMI" ->
                                        Created(createVarDefn(type.node, <<id.node>>,
                                                              <<NULL>>),
                                                next.entry)
                                   [] next.token.type \in {"TT_COMMA", "TT_EQ"} ->
                                        finishVarDefn(next.entry, type.node, <<id.node>>,
                                                      <<NULL>>, next.token.type)
                                   [] next.token.type = "TT_LPAREN" ->
                                        finishFunDeclOrDefn(next.entry, type.node, id.node)
                                   [] OTHER ->
                                        Freeing(FailString(next.entry,
                                                           "a semicolon, comma, or a left paren",
                                                           next.token),
                                                <<type.node, id.node>>)
                               : next \in {lex(id.entry)} })
                   : id \in {parseId(type.entry)} })
       : type \in {parseType(unLex(entry, start))} })

parseOpaqueDecl(entry, start) ==
  Only({ IF name.node = NULL
         THEN Ret(NULL, panicTopLevel(name.entry))
         ELSE ExpectSemi(name.entry, createOpaqueDecl(start, name.node), <<name.node>>)
       : name \in {parseId(entry)} })

\* the names loop of parseFieldOrOptionDecl: no recovery, unLex and NULL
RECURSIVE parseFieldOrOptionNames(_, _, _)
parseFieldOrOptionNames(entry, type, names) ==
  Only({ IF id.token.type # "TT_ID"
         THEN Freeing(Ret(NULL, unLex(errorExpectedToken(id.entry, "TT_ID", id.token),
                                      id.token)),
                      <<type>> \o names)
         ELSE Only({ CASE peek.token.type = "TT_SEMI" ->
                            Created(createVarDecl(type, Append(names, createId(id.token))),
                                    peek.entry)
                       [] peek.token.type = "TT_COMMA" ->
                            parseFieldOrOptionNames(peek.entry, type,
                                                    Append(names, createId(id.token)))
                       [] OTHER ->
                            Freeing(Ret(NULL, unLex(errorExpectedString(
                                                        peek.entry, "a semicolon or a comma",
                                                        peek.token),
                                                    peek.token)),
                                    <<type>> \o Append(names, createId(id.token)))
                   : peek \in {lex(createNode(createId(id.token), id.entry))} })
       : id \in {lex(entry)} })

parseFieldOrOptionDecl(entry, start) ==
  Only({ IF type.node = NULL
         THEN Ret(NULL, type.entry)
         ELSE parseFieldOrOptionNames(type.entry, type.node, <<>>)
       : type \in {parseType(unLex(entry, start))} })

\* the fields loop of parseStructDecl: 'while (!doneFields)'
RECURSIVE parseStructFields(_, _)
parseStructFields(entry, fields) ==
  Only({ CASE peek.token.type \in StructFieldStartTypes ->
                Only({ IF field.node = NULL
                       THEN Failed(Freeing(Ret(NULL, panicTopLevel(field.entry)), fields))
                       ELSE parseStructFields(field.entry, Append(fields, field.node))
                     : field \in {parseFieldOrOptionDecl(peek.entry, peek.token)} })
           [] peek.token.type = "TT_RBRACE" ->
                [done |-> TRUE, entry |-> peek.entry, fields |-> fields]
           [] OTHER ->
                Failed(Freeing(FailString(peek.entry, "a right brace or a field",
                                          peek.token),
                               fields))
       : peek \in {lex(entry)} })

\* parseStructDecl after the left brace.  Every failed return frees name and
\* fields: the loop frees the fields it has, finishStructDecl the name
finishStructDecl(entry, start, name, lbrace) ==
  Only({ IF ~loop.done
         THEN Freeing(loop.ret, <<name>>)
         ELSE IF Len(loop.fields) = 0
              THEN Freeing(Ret(NULL, errorAtLeastOne(loop.entry,
                                                     "field in a struct declaration",
                                                     lbrace)),
                           <<name>> \o loop.fields)
              ELSE ExpectSemi(loop.entry, createStructDecl(start, name, loop.fields),
                              <<name>> \o loop.fields)
       : loop \in {parseStructFields(entry, <<>>)} })

parseStructDecl(entry, start) ==
  Only({ IF name.node = NULL
         THEN Ret(NULL, panicTopLevel(name.entry))
         ELSE Only({ IF lbrace.token.type # "TT_LBRACE"
                     THEN Freeing(FailToken(lbrace.entry, "TT_LBRACE", lbrace.token),
                                  <<name.node>>)
                     ELSE finishStructDecl(lbrace.entry, start, name.node, lbrace.token)
                   : lbrace \in {lex(name.entry)} })
       : name \in {parseId(entry)} })

\* the options loop of parseUnionDecl: 'while (!doneOptions)'
RECURSIVE parseUnionOptions(_, _)
parseUnionOptions(entry, options) ==
  Only({ CASE peek.token.type \in UnionOptionStartTypes ->
                Only({ IF option.node = NULL
                       THEN Failed(Freeing(Ret(NULL, panicTopLevel(option.entry)),
                                           options))
                       ELSE parseUnionOptions(option.entry, Append(options, option.node))
                     : option \in {parseFieldOrOptionDecl(peek.entry, peek.token)} })
           [] peek.token.type = "TT_RBRACE" ->
                [done |-> TRUE, entry |-> peek.entry, options |-> options]
           [] OTHER ->
                Failed(Freeing(FailString(peek.entry, "a right brace or an option",
                                          peek.token),
                               options))
       : peek \in {lex(entry)} })

\* parseUnionDecl after the left brace; its failed returns free as those of
\* parseStructDecl do
finishUnionDecl(entry, start, name, lbrace) ==
  Only({ IF ~loop.done
         THEN Freeing(loop.ret, <<name>>)
         ELSE IF Len(loop.options) = 0
              THEN Freeing(Ret(NULL, errorAtLeastOne(loop.entry,
                                                     "option in a union declaration",
                                                     lbrace)),
                           <<name>> \o loop.options)
              ELSE ExpectSemi(loop.entry, createUnionDecl(start, name, loop.options),
                              <<name>> \o loop.options)
       : loop \in {parseUnionOptions(entry, <<>>)} })

parseUnionDecl(entry, start) ==
  Only({ IF name.node = NULL
         THEN Ret(NULL, panicTopLevel(name.entry))
         ELSE Only({ IF lbrace.token.type # "TT_LBRACE"
                     THEN Freeing(FailToken(lbrace.entry, "TT_LBRACE", lbrace.token),
                                  <<name.node>>)
                     ELSE finishUnionDecl(lbrace.entry, start, name.node, lbrace.token)
                   : lbrace \in {lex(name.entry)} })
       : name \in {parseId(entry)} })

EnumDone(entry, constantNames, constantValues) ==
  [done |-> TRUE, entry |-> entry, constantNames |-> constantNames,
   constantValues |-> constantValues]

\* parseEnumDecl, after '= literal' of a constant
RECURSIVE parseEnumConstants(_, _, _)
parseEnumAfterValue(entry, constantNames, constantValues) ==
  Only({ CASE peek.token.type = "TT_COMMA" ->
                parseEnumConstants(peek.entry, constantNames, constantValues)
           [] peek.token.type = "TT_RBRACE" ->
                EnumDone(peek.entry, constantNames, constantValues)
           [] OTHER ->
                Failed(Freeing(FailString(peek.entry, "a comma or a right brace",
                                          peek.token),
                               constantNames \o constantValues))
       : peek \in {lex(entry)} })

\* (a variant for C28: a constant followed by a comma gets no value entry)
parseEnumAfterNameNoPlaceholder(entry, constantNames, constantValues) ==
  Only({ CASE peek.token.type = "TT_EQ" ->
                Only({ IF literal.node = NULL
                       THEN Failed(Freeing(Ret(NULL, panicTopLevel(literal.entry)),
                                           constantNames \o constantValues))
                       ELSE parseEnumAfterValue(literal.entry, constantNames,
                                                Append(constantValues, literal.node))
                     : literal \in {parseExtendedIntLiteral(peek.entry)} })
           [] peek.token.type = "TT_COMMA" ->
                parseEnumConstants(peek.entry, constantNames, constantValues)
           [] peek.token.type = "TT_RBRACE" ->
                EnumDone(peek.entry, constantNames, Append(constantValues, NULL))
           [] OTHER ->
                Failed(Freeing(FailString(peek.entry,
                                          "a comma, an equals sign, or a right brace",
                                          peek.token),
                               constantNames \o constantValues))
       : peek \in {lex(entry)} })

\* parseEnumDecl, after the id of a constant
parseEnumAfterName(entry, constantNames, constantValues) ==
  Only({ CASE peek.token.type = "TT_EQ" ->
                Only({ IF literal.node = NULL
                       THEN Failed(Freeing(Ret(NULL, panicTopLevel(literal.entry)),
                                           constantNames \o constantValues))
                       ELSE parseEnumAfterValue(literal.entry, constantNames,
                                                Append(constantValues, literal.node))
                     : literal \in {parseExtendedIntLiteral(peek.entry)} })
           [] peek.token.type = "TT_COMMA" ->
                parseEnumConstants(peek.entry, constantNames, Append(constantValues, NULL))
           [] peek.token.type = "TT_RBRACE" ->
                EnumDone(peek.entry, constantNames, Append(constantValues, NULL))
           [] OTHER ->
                Failed(Freeing(FailString(peek.entry,
                                          "a comma, an equals sign, or a right brace",
                                          peek.token),
                               constantNames \o constantValues))
       : peek \in {lex(entry)} })

\* the constants loop of parseEnumDecl: 'while (!doneConstants)'
parseEnumConstants(entry, constantNames, constantValues) ==
  Only({ CASE peek.token.type = "TT_ID" ->
                parseEnumAfterName(createNode(createId(peek.token), peek.entry),
                                   Append(constantNames, createId(peek.token)),
                                   constantValues)
           [] peek.token.type = "TT_RBRACE" ->
                EnumDone(peek.entry, constantNames, constantValues)
           [] OTHER ->
                Failed(Freeing(FailString(peek.entry,
                                          "a right brace or an enumeration constant",
                                          peek.token),
                               constantNames \o constantValues))
       : peek \in {lex(entry)} })

\* parseEnumDecl after the left brace.  Every failed return frees name and
\* the two vectors: the loop frees the vectors as they are where it fails,
\* finishEnumDecl the name
finishEnumDecl(entry, start, name, lbrace) ==
  Only({ IF ~loop.done
         THEN Freeing(loop.ret, <<name>>)
         ELSE IF Len(loop.constantNames) = 0
              THEN Freeing(Ret(NULL,
                               panicTopLevel(errorAtLeastOne(
                                   loop.entry,
                                   "enumeration constant in a enumeration declaration",
                                   lbrace))),
                           <<name>> \o loop.constantNames \o loop.constantValues)
              ELSE ExpectSemi(loop.entry,
                              createEnumDecl(start, name, loop.constantNames,
                                             loop.constantValues),
                              <<name>> \o loop.constantNames \o loop.constantValues)
       : loop \in {parseEnumConstants(entry, <<>>, <<>>)} })

parseEnumDecl(entry, start) ==
  Only({ IF name.node = NULL
         THEN Ret(NULL, panicTopLevel(name.entry))
         ELSE Only({ IF lbrace.token.type # "TT_LBRACE"
                     THEN Freeing(FailToken(lbrace.entry, "TT_LBRACE", lbrace.token),
                                  <<name.node>>)
                     ELSE finishEnumDecl(lbrace.entry, start, name.node, lbrace.token)
                   : lbrace \in {lex(name.entry)} })
       : name \in {parseId(entry)} })

parseTypedefDecl(entry, start) ==
  Only({ IF originalType.node = NULL
         THEN Ret(NULL, panicTopLevel(originalType.entry))
         ELSE Only({ IF name.node = NULL
                     THEN Freeing(Ret(NULL, panicTopLevel(name.entry)),
                                  <<originalType.node>>)
                     ELSE ExpectSemi(name.entry,
                                     createTypedefDecl(start, originalType.node, name.node),
                                     <<originalType.node, name.node>>)
                   : name \in {parseId(originalType.entry)} })
       : originalType \in {parseType(entry)} })

(***************************************************************************)
(* parseBodies, parseImports, parseFile and parse                          *)
(***************************************************************************)
\* what one pass of the loop of parseImports or parseBodies did: the parser it
\* dispatched to, on which start token, and what that parser returned; more is
\* FALSE when the loop has ended
Go(parser, start, ret) == [more |-> TRUE, parser |-> parser, start |-> start, ret |-> ret]

Stop(parser, start, entry) ==
  [more |-> FALSE, parser |-> parser, start |-> start, ret |-> Ret(NULL, entry)]

\* one pass of parseImports' loop
parseImportsIter(entry) ==
  Only({ IF importToken.token.type # "TT_IMPORT"
         THEN Stop("parseImports", importToken.token,
                   unLex(importToken.entry, importToken.token))
         ELSE Go("parseImport", importToken.token,
                 parseImport(importToken.entry, importToken.token))
       : importToken \in {lex(entry)} })

\* one pass of parseBodies' loop: the switch on the start token
parseBodiesIter(entry) ==
  Only({ CASE start.token.type \in BodiesDeclStartTypes ->
                IF entry.isCode
                THEN Go("parseFunOrVarDeclOrDefn", start.token,
                        parseFunOrVarDeclOrDefn(start.entry, start.token))
                ELSE Go("parseFunOrVarDecl", start.token,
                        parseFunOrVarDecl(start.entry, start.token))
           [] start.token.type = "TT_OPAQUE" ->
                Go("parseOpaqueDecl", start.token, parseOpaqueDecl(start.entry, start.token))
           [] start.token.type = "TT_STRUCT" ->
                Go("parseStructDecl", start.token, parseStructDecl(start.entry, start.token))
           [] start.token.type = "TT_UNION" ->
                Go("parseUnionDecl", start.token, parseUnionDecl(start.entry, start.token))
           [] start.token.type = "TT_ENUM" ->
                Go("parseEnumDecl", start.token, parseEnumDecl(start.entry, start.token))
           [] start.token.type = "TT_TYPEDEF" ->
                Go("parseTypedefDecl", start.token,
                   parseTypedefDecl(start.entry, start.token))
           [] start.token.type = "TT_EOF" ->
                Stop("parseBodies", start.token, start.entry)
           [] OTHER ->
                Go("unexpected", start.token,
                   FailString(start.entry, "a declaration", start.token))
       : start \in {lex(entry)} })

\* the tail of parseFile: the File node, or NULL when the module line failed
parseFileResult(mod, imps, bods) ==
  IF mod = NULL THEN NULL ELSE createFile(mod, imps, bods)

\* the heap after the tail of parseFile: the File node is allocated, or the
\* imports and the bodies are freed
parseFileHeap(entry, mod, imps, bods) ==
  IF mod = NULL THEN nodeVectorFree(nodeVectorFree(entry, imps), bods)
  ELSE createNode(createFile(mod, imps, bods), entry)

\* (a variant for C9: parse() returns retval, the last lexerStateInit's zero)
parseResultRetval(anyErrored) == 0

\* the value parse() returns
parseResult(anyErrored) == IF anyErrored THEN -1 ELSE 0

(***************************************************************************)
(* The state machine.                                                      *)
(*   fileList  the global file list: per entry the token stream of the     *)
(*             file, isCode, errored, program (parsed: parseFile returned  *)
(*             it; freed: nodeFree was called on it) and the lexer state   *)
(*   idx       the loop variable of parse()                                *)
(*   errored   the local 'errored' of parse()                              *)
(*   retval    the value parse() returned (pc = "done")                    *)
(*   module, imports, bodies   the locals of parseFile                     *)
(*   pc        where the run is                                            *)
(*   last      history: the parser that ran in the last step, the token it *)
(*             was started on, the node it returned, the entry before, and *)
(*             the parity of the number of passes of the loop it ran in    *)
(***************************************************************************)
NoLast ==
  [parser |-> "none", start |-> NoToken, node |-> NULL, before |-> NULL, pass |-> 0]

cur == fileList[idx]

\* a file-list entry as the file list hands it to parse()
NewEntry(toks, isCode, readable) ==
  [inputTokens |-> toks, isCode |-> isCode, readable |-> readable, errored |-> FALSE,
   parsed |-> FALSE, program |-> NULL, freed |-> FALSE,
   lexerState |-> [pos |-> 1, pushedBack |-> FALSE, previous |-> NoToken],
   diags |-> {}, lastLexed |-> NoToken, discipline |-> {}, panicked |-> FALSE,
   heap |-> [created |-> <<>>, freed |-> <<>>]]

\* all sequences of at most n elements of S
RECURSIVE SeqsUpTo(_, _)
SeqsUpTo(S, n) ==
  IF n = 0 THEN {<<>>}
  ELSE LET shorter == SeqsUpTo(S, n - 1)
       IN shorter \cup {Append(s, x) : s \in shorter, x \in S}

\* the concatenation of a sequence of sequences
RECURSIVE Flatten(_)
Flatten(ss) == IF ss = <<>> THEN <<>> ELSE Head(ss) \o Flatten(Tail(ss))

\* the module headers a file starts with
Headers ==
  { <<>>,
    <<"TT_MODULE", "TT_ID", "TT_SEMI">>,
    <<"TT_MODULE", "TT_ID", "TT_SCOPE", "TT_ID", "TT_SEMI", "TT_IMPORT", "TT_ID", "TT_SEMI">>,
    <<"TT_MODULE", "TT_ID", "TT_SCOPE", "TT_SEMI">> }

\* the phrases a file's bodies are made of
Forms ==
  { <<"TT_SEMI">>,
    <<"TT_PLUS">>,
    <<"TT_INT">>,
    <<"TT_IMPORT">>,
    <<"TT_OPAQUE", "TT_ID", "TT_SEMI">>,
    <<"TT_STRUCT", "TT_ID", "TT_LBRACE">>,
    <<"TT_STRUCT", "TT_ID", "TT_LBRACE", "TT_RBRACE">>,
    <<"TT_UNION", "TT_ID", "TT_LBRACE", "TT_RBRACE">>,
    <<"TT_ENUM", "TT_ID", "TT_LBRACE", "TT_RBRACE">>,
    <<"TT_ENUM", "TT_ID", "TT_LBRACE", "TT_ID", "TT_RBRACE">> }

\* the token streams of the files parsed on their own
Streams ==
  { h \o Flatten(fs) \o <<"TT_EOF">> : h \in Headers, fs \in SeqsUpTo(Forms, MaxForms) }
  \cup
  { h \o r \o <<"TT_EOF">> : h \in Headers, r \in SeqsUpTo(TokenTypes \ {"TT_EOF"}, MaxRaw) }

\* the token streams of the files of a run over several files
DriverStreams ==
  { <<"TT_EOF">>,
    <<"TT_MODULE", "TT_ID", "TT_SEMI", "TT_EOF">>,
    <<"TT_MODULE", "TT_ID", "TT_SEMI", "TT_OPAQUE", "TT_ID", "TT_SEMI", "TT_EOF">>,
    <<"TT_MODULE", "TT_ID", "TT_SEMI", "TT_STRUCT", "TT_ID", "TT_LBRACE", "TT_RBRACE",
      "TT_SEMI", "TT_EOF">>,
    <<"TT_MODULE", "TT_ID", "TT_SEMI", "TT_INT", "TT_EOF">> }

Entries(streams) ==
  { NewEntry(toks, isCode, readable) :
      toks \in streams, isCode \in BOOLEAN, readable \in BOOLEAN }

\* the token kinds of the streams the subparsers are applied to in isolation
SubTypes == {"TT_ID", "TT_SCOPE", "TT_SEMI", "TT_BYTE", "TT_PLUS", "TT_INT"}

\* those streams: any one token, then tokens of SubTypes
SubStreams ==
  { r \o <<"TT_EOF">> : r \in SeqsUpTo(SubTypes, MaxSubLen) }
  \cup
  { <<k>> \o r \o <<"TT_EOF">> : k \in TokenTypes \ {"TT_EOF"},
                                r \in SeqsUpTo(SubTypes, MaxSubLen - 1) }

\* an entry in the middle of a parse: the lexer state is fresh, or the first
\* token has been lexed and unread
SubEntry(toks, peeked) ==
  IF peeked
  THEN Only({ unLex(l.entry, l.token) : l \in {lex(NewEntry(toks, FALSE, TRUE))} })
  ELSE NewEntry(toks, FALSE, TRUE)

\* a run of parse() over a file list
ParseInit ==
  /\ fileList \in { <<NewEntry(toks, isCode, TRUE)>> : toks \in Streams, isCode \in BOOLEAN }
                  \cup SeqsUpTo(Entries(DriverStreams), MaxFiles)
  /\ pc = "parse"

\* a subparser applied on its own to an entry
SubInit ==
  /\ fileList \in { <<SubEntry(toks, peeked)>> : toks \in SubStreams, peeked \in BOOLEAN }
  /\ pc = "sub"

Init ==
  /\ ParseInit \/ SubInit
  /\ idx = 1
  /\ errored = FALSE
  /\ retval = 0
  /\ module = NULL
  /\ imports = <<>>
  /\ bodies = <<>>
  /\ last = NoLast
  /\ asts = <<>>
  /\ fragmentMap = <<>>
  /\ call = <<>>
  /\ returned = <<>>

\* parse(): the loop head, for a file whose lexer state cannot be set up
\* (lexerStateInit returns nonzero); whether lexerStateInit marks the entry
\* errored is for the lexer to say
ParseSkipFile ==
  /\ pc = "parse"
  /\ idx <= Len(fileList)
  /\ ~cur.readable
  /\ \E marks \in BOOLEAN : fileList' = [fileList EXCEPT ![idx].errored = @ \/ marks]
  /\ errored' = TRUE
  /\ idx' = idx + 1
  /\ UNCHANGED <<pc, retval, module, imports, bodies, last>>
  /\ UNCHANGED translateVars

\* parse(): the loop head, lexerStateInit succeeded: parseFile starts
ParseStartFile ==
  /\ pc = "parse"
  /\ idx <= Len(fileList)
  /\ cur.readable
  /\ fileList' = [fileList EXCEPT ![idx] = lexerStateInit(@)]
  /\ pc' = "parseModule"
  /\ UNCHANGED <<idx, errored, retval, module, imports, bodies, last>>
  /\ UNCHANGED translateVars

\* parseFile: 'Node *module = parseModule(entry);'
ParseModule ==
  /\ pc = "parseModule"
  /\ \E r \in {parseModule(cur)} :
        /\ module' = r.node
        /\ fileList' = [fileList EXCEPT ![idx] = r.entry]
        /\ last' = [parser |-> "parseModule", start |-> NoToken, node |-> r.node,
                    before |-> cur, pass |-> 0]
  /\ pc' = "parseImports"
  /\ imports' = <<>>
  /\ UNCHANGED <<idx, errored, retval, bodies>>
  /\ UNCHANGED translateVars

\* parseImports: one pass of the loop
ParseImports ==
  /\ pc = "parseImports"
  /\ \E i \in {parseImportsIter(cur)} :
        /\ fileList' = [fileList EXCEPT ![idx] = i.ret.entry]
        /\ imports' = IF i.ret.node # NULL THEN Append(imports, i.ret.node) ELSE imports
        /\ pc' = IF i.more THEN "parseImports" ELSE "parseBodies"
        /\ last' = [parser |-> i.parser, start |-> i.start, node |-> i.ret.node,
                    before |-> cur, pass |-> 1 - last.pass]
  /\ bodies' = <<>>
  /\ UNCHANGED <<idx, errored, retval, module>>
  /\ UNCHANGED translateVars

\* parseBodies: one pass of the loop
ParseBodies ==
  /\ pc = "parseBodies"
  /\ \E b \in {parseBodiesIter(cur)} :
        /\ fileList' = [fileList EXCEPT ![idx] = b.ret.entry]
        /\ bodies' = IF b.ret.node # NULL THEN Append(bodies, b.ret.node) ELSE bodies
        /\ pc' = IF b.more THEN "parseBodies" ELSE "parseFile"
        /\ last' = [parser |-> b.parser, start |-> b.start, node |-> b.ret.node,
                    before |-> cur, pass |-> 1 - last.pass]
  /\ UNCHANGED <<idx, errored, retval, module, imports>>
  /\ UNCHANGED translateVars

\* parseFile returns; parse() stores the program and goes to the next file
ParseFileReturn ==
  /\ pc = "parseFile"
  /\ fileList' = [fileList EXCEPT
                    ![idx] = [parseFileHeap(@, module, imports, bodies)
                                EXCEPT !.program = parseFileResult(module, imports, bodies),
                                       !.parsed = TRUE]]
  /\ errored' = (errored \/ cur.errored)
  /\ idx' = idx + 1
  /\ pc' = "parse"
  /\ module' = NULL
  /\ imports' = <<>>
  /\ bodies' = <<>>
  /\ last' = NoLast
  /\ UNCHANGED retval
  /\ UNCHANGED translateVars

\* parse(): after the loop; the programs are freed when a file errored
ParseReturn ==
  /\ pc = "parse"
  /\ idx > Len(fileList)
  /\ retval' = parseResult(errored)
  /\ fileList' = IF errored
                 THEN [i \in DOMAIN fileList |->
                         [nodeFree(fileList[i], fileList[i].program)
                            EXCEPT !.freed = TRUE]]
                 ELSE fileList
  /\ pc' = "done"
  /\ UNCHANGED <<idx, errored, module, imports, bodies, last>>
  /\ UNCHANGED translateVars

\* a subparser is applied to the entry; a second one may follow it
SubApply(parser, ret) ==
  /\ fileList' = [fileList EXCEPT ![idx] = ret.entry]
  /\ last' = [parser |-> parser, start |-> NoToken, node |-> ret.node, before |-> cur,
              pass |-> 0]
  /\ pc' = IF pc = "sub" THEN "sub2" ELSE "subEnd"
  /\ UNCHANGED <<idx, errored, retval, module, imports, bodies>>
  /\ UNCHANGED translateVars

SubPanicTopLevel ==
  /\ pc \in {"sub", "sub2"}
  /\ SubApply("panicTopLevel", Ret(NULL, panicTopLevel(cur)))

SubParseAnyId ==
  /\ pc = "sub"
  /\ SubApply("parseAnyId", parseAnyId(cur))

SubParseId ==
  /\ pc = "sub"
  /\ SubApply("parseId", parseId(cur))

SubParseExtendedIntLiteral ==
  /\ pc = "sub"
  /\ SubApply("parseExtendedIntLiteral", parseExtendedIntLiteral(cur))

SubParseLiteral ==
  /\ pc = "sub"
  /\ SubApply("parseLiteral", parseLiteral(cur))

SubParseType ==
  /\ pc = "sub"
  /\ SubApply("parseType", parseType(cur))

\* finishFunDecl, applied after 'type id (' with the ids of the type and the name
SubFinishFunDecl ==
  /\ pc = "sub"
  /\ SubApply("finishFunDecl", finishFunDecl(cur, createId(NoToken), createId(NoToken)))

\* finishVarDecl, applied after 'type id ,'
SubFinishVarDecl ==
  /\ pc = "sub"
  /\ SubApply("finishVarDecl",
              finishVarDecl(cur, createId(NoToken), <<createId(NoToken)>>))

Next ==
  \/ SubPanicTopLevel
  \/ SubParseAnyId
  \/ SubParseId
  \/ SubParseExtendedIntLiteral
  \/ SubParseLiteral
  \/ SubParseType
  \/ SubFinishFunDecl
  \/ SubFinishVarDecl
  \/ ParseSkipFile
  \/ ParseStartFile
  \/ ParseModule
  \/ ParseImports
  \/ ParseBodies
  \/ ParseFileReturn
  \/ ParseReturn

Spec == Init /\ [][Next]_vars

\* the run is never held up between two steps
FairSpec == Spec /\ WF_vars(Next)

(***************************************************************************)
(* The parser's contract, claim by claim                                   *)
(***************************************************************************)
\* the tokens that can start a top-level form, and EOF: the boundary tokens
FormStartTypes ==
  TypeKeywords \cup {"TT_ID", "TT_OPAQUE", "TT_STRUCT", "TT_UNION", "TT_ENUM",
                     "TT_TYPEDEF", "TT_MODULE", "TT_IMPORT", "TT_EOF"}

\* the token an entry's next lex returns
NextToken(entry) == TokenAt(entry.inputTokens, Cursor(entry))

\* C1: parseFile terminates on every token sequence ended by EOF: once
\* parseFile has been entered, it returns to parse()
C1_ParseFileTerminates == (pc = "parseModule") ~> (pc = "parse")

\* where the recovery rule stops when it starts reading toks at p: after the
\* first semicolon, or before the first boundary token
RECURSIVE BoundaryFrom(_, _)
BoundaryFrom(toks, p) ==
  CASE TokenAt(toks, p).type = "TT_SEMI" -> p + 1
    [] TokenAt(toks, p).type \in FormStartTypes -> p
    [] OTHER -> BoundaryFrom(toks, p + 1)

\* C2: panicTopLevel consumes a semicolon and returns, unreads a token that can
\* start a top-level form (each of the 14 type keywords, an id, opaque, struct,
\* union, enum, typedef, module, import) or EOF and returns, and discards
\* every other token: it leaves the cursor at the first boundary
C2_PanicStopsAtFirstBoundary ==
  last.parser = "panicTopLevel" =>
    Cursor(cur) = BoundaryFrom(last.before.inputTokens, Cursor(last.before))

\* an entry's cursor is at a top-level boundary: just after a semicolon, or
\* just before a token that starts a top-level form or EOF
AtBoundary(entry) ==
  \/ /\ ~entry.lexerState.pushedBack
     /\ entry.lastLexed.type = "TT_SEMI"
  \/ NextToken(entry).type \in FormStartTypes

\* C3 as stated: panicTopLevel invoked with the cursor at a top-level boundary,
\* in particular in the state a previous panicTopLevel left, returns with the
\* cursor unchanged (here on the streams without byte and short, where the
\* recovery rule and panicTopLevel agree on the boundary tokens)
C3_IdempotentOnBoundaries ==
  (/\ last.parser = "panicTopLevel"
   /\ \A p \in DOMAIN cur.inputTokens : cur.inputTokens[p] \notin {"TT_BYTE", "TT_SHORT"}
   /\ last.before.panicked \/ AtBoundary(last.before))
    => Cursor(cur) = Cursor(last.before)

\* C3, amended: panicTopLevel invoked in the state left by a previous
\* panicTopLevel that did not end by consuming a semicolon (it unread a token)
\* returns with the cursor unchanged
C3_IdempotentAfterUnread ==
  (/\ last.parser = "panicTopLevel"
   /\ last.before.panicked
   /\ last.before.lastLexed.type # "TT_SEMI")
    => Cursor(cur) = Cursor(last.before)

\* C3: a second panicTopLevel has run after one that discarded tokens and
\* unread the token it stopped at
C3_Witness ==
  /\ pc = "subEnd"
  /\ last.parser = "panicTopLevel"
  /\ last.before.panicked
  /\ last.before.lexerState.pushedBack
  /\ Cursor(last.before) > 1
  /\ Cursor(cur) = Cursor(last.before)

\* C4: at most one token is pushed back: every unLex returns the most
\* recently lexed token, no two unLex calls occur without a lex between them,
\* and no unLex moves the cursor forward
C4_OneTokenPushback ==
  \A i \in DOMAIN fileList : fileList[i].discipline = {}

\* C4: finishFunDecl has read ')' and a token that is no semicolon, reported
\* it and unread it, and panicTopLevel has read on from it
C4_Witness ==
  /\ last.parser = "finishFunDecl"
  /\ last.node = NULL
  /\ NextToken(last.before).type = "TT_RPAREN"
  /\ cur.diags # {}
  /\ cur.lexerState.pushedBack

\* where parseAnyId leaves the cursor when it fails reading toks at p: at the
\* token that should have been an id (0 when it does not fail)
RECURSIVE AnyIdFailsAt(_, _)
AnyIdFailsAt(toks, p) ==
  IF TokenAt(toks, p).type # "TT_ID" THEN p
  ELSE IF TokenAt(toks, p + 1).type = "TT_SCOPE" THEN AnyIdFailsAt(toks, p + 2)
       ELSE 0

ContextIgnorantParsers == {"parseId", "parseAnyId", "parseLiteral", "parseType"}

\* C5 as stated: a context-ignorant subparser that fails returns no node and
\* leaves the cursor exactly where it was when the subparser was entered
C5_FailureRestoresCursor ==
  (last.parser \in ContextIgnorantParsers /\ last.node = NULL)
    => Cursor(cur) = Cursor(last.before)

\* C5, amended: a context-ignorant subparser that fails returns no node and
\* unreads the one token it failed on: parseId, parseLiteral and parseType
\* leave the cursor where it was on entry; parseAnyId leaves it at the token
\* that should have been an id, which after 'id ::' is past the entry
C5_FailureUnreadsLastToken ==
  /\ (last.parser \in {"parseId", "parseLiteral", "parseType"} /\ last.node = NULL)
       => Cursor(cur) = Cursor(last.before)
  /\ (last.parser = "parseAnyId" /\ last.node = NULL)
       => /\ Cursor(cur) = AnyIdFailsAt(last.before.inputTokens, Cursor(last.before))
          /\ Cursor(cur) >= Cursor(last.before)
  /\ (last.parser = "parseAnyId" /\ last.node # NULL)
       => AnyIdFailsAt(last.before.inputTokens, Cursor(last.before)) = 0

\* C5: parseAnyId has failed after 'id ::' and left the cursor two tokens on
C5_Witness ==
  /\ last.parser = "parseAnyId"
  /\ last.node = NULL
  /\ Cursor(last.before) = 1
  /\ Cursor(cur) = 3
  /\ cur.errored

ContextAwareParsers ==
  {"parseModule", "parseImport", "parseFunOrVarDecl", "parseFunOrVarDeclOrDefn",
   "parseOpaqueDecl", "parseStructDecl", "parseUnionDecl", "parseEnumDecl",
   "parseTypedefDecl"}

\* C6: every failing return of a context-aware top-level parser is preceded
\* by panicTopLevel, so that when it returns no node the cursor is at a
\* top-level boundary
C6_FailureLeavesBoundary ==
  (last.parser \in ContextAwareParsers /\ last.node = NULL)
    => (cur.panicked /\ AtBoundary(cur))

\* where the id, plain or scoped, that starts at p in toks ends: the index
\* after its last token (0 when no well-formed id starts at p)
RECURSIVE ScopedIdEnd(_, _)
ScopedIdEnd(toks, p) ==
  IF TokenAt(toks, p).type # "TT_ID" THEN 0
  ELSE IF TokenAt(toks, p + 1).type = "TT_SCOPE" THEN ScopedIdEnd(toks, p + 2)
       ELSE p + 1

\* the file starts with a well-formed module line: module id(::id)* ;
ModuleLineOK(toks) ==
  /\ TokenAt(toks, 1).type = "TT_MODULE"
  /\ ScopedIdEnd(toks, 2) # 0
  /\ TokenAt(toks, ScopedIdEnd(toks, 2)).type = "TT_SEMI"

\* C7: after parseFile returns, errored is set iff a parse error was reported
\* for the file; no File node is returned only when the module line failed,
\* and then errored is set; otherwise a File node is returned, errors or not
C7_ErroredIffReported ==
  \A i \in DOMAIN fileList :
    fileList[i].parsed =>
      /\ fileList[i].errored <=> (fileList[i].diags # {})
      /\ (fileList[i].program = NULL) <=> ~ModuleLineOK(fileList[i].inputTokens)
      /\ (fileList[i].program = NULL) => fileList[i].errored
      /\ (fileList[i].program # NULL) => fileList[i].program.type = "NT_FILE"

\* C7: parseFile has returned a File node for a file with a reported error
C7_Witness ==
  \E i \in DOMAIN fileList :
    /\ fileList[i].parsed
    /\ fileList[i].program # NULL
    /\ fileList[i].errored
    /\ \E d \in fileList[i].diags : d.expected = "a declaration"

\* a struct or union declaration with nothing between its braces is next
ZeroFieldsAhead(entry) ==
  /\ NextToken(entry).type \in {"TT_STRUCT", "TT_UNION"}
  /\ TokenAt(entry.inputTokens, Cursor(entry) + 1).type = "TT_ID"
  /\ TokenAt(entry.inputTokens, Cursor(entry) + 2).type = "TT_LBRACE"
  /\ TokenAt(entry.inputTokens, Cursor(entry) + 3).type = "TT_RBRACE"

AtLeastOneMessages == {"field in a struct declaration", "option in a union declaration"}

\* C8: a struct or union declaration with zero fields is a non-fatal error:
\* the diagnostic is placed at the opening brace, errored is set, no node is
\* added to the bodies, and parseBodies goes on behind the closing brace
C8_ZeroFieldsNonFatal ==
  [][(pc = "parseBodies" /\ ZeroFieldsAhead(cur))
       => /\ \E d \in cur'.diags : /\ d.at = Cursor(cur) + 2
                                   /\ d.expected \in AtLeastOneMessages
          /\ \A d \in cur'.diags \ cur.diags : d.at = Cursor(cur) + 2
          /\ cur'.errored
          /\ bodies' = bodies
          /\ pc' = "parseBodies"
          /\ Cursor(cur') = Cursor(cur) + 4]_vars

\* C8: after a struct with zero fields was rejected, the opaque declaration
\* that follows it has been parsed and added to the bodies
C8_Witness ==
  /\ pc = "parseBodies"
  /\ last.parser = "parseOpaqueDecl"
  /\ last.node # NULL
  /\ Len(bodies) = 1
  /\ \E d \in cur.diags : /\ d.expected = "field in a struct declaration"
                          /\ cur.inputTokens[d.at] = "TT_LBRACE"

\* C9 as stated: parse() returns nonzero iff the errored flag of some entry
\* is set, and every file of the list is parsed
C9_NonzeroIffErroredFlag ==
  pc = "done" =>
    /\ (retval # 0) <=> (\E i \in DOMAIN fileList : fileList[i].errored)
    /\ \A i \in DOMAIN fileList : fileList[i].parsed

\* C9, amended: parse() returns nonzero iff the errored flag of some entry is
\* set or the lexer state of some file could not be set up; every file whose
\* lexer state is set up is parsed, whatever happened to the files before it
C9_NonzeroIffErroredOrUnreadable ==
  pc = "done" =>
    /\ (retval # 0) <=> (\E i \in DOMAIN fileList :
                           fileList[i].errored \/ ~fileList[i].readable)
    /\ \A i \in DOMAIN fileList : fileList[i].parsed <=> fileList[i].readable

\* C9: parse() has returned nonzero for a list whose first file could not be
\* read and whose second file was parsed without an error
C9_Witness ==
  /\ pc = "done"
  /\ retval # 0
  /\ Len(fileList) = 2
  /\ ~fileList[1].readable
  /\ fileList[2].parsed
  /\ \A i \in DOMAIN fileList : ~fileList[i].errored

\* the names parseBodies' passes are recorded under
BodiesParsers ==
  {"parseFunOrVarDecl", "parseFunOrVarDeclOrDefn", "parseOpaqueDecl", "parseStructDecl",
   "parseUnionDecl", "parseEnumDecl", "parseTypedefDecl", "parseBodies", "unexpected"}

\* C10: parseBodies dispatches each of the 14 type keywords and an id to the
\* function/variable declaration parser, opaque, struct, union, enum and
\* typedef to their parsers, and reports 'expected a declaration' only for
\* the tokens outside that set
C10_BodiesDispatch ==
  last.parser \in BodiesParsers =>
    /\ last.start.type \in TypeKeywords \cup {"TT_ID"}
         => last.parser \in {"parseFunOrVarDecl", "parseFunOrVarDeclOrDefn"}
    /\ last.start.type = "TT_OPAQUE" => last.parser = "parseOpaqueDecl"
    /\ last.start.type = "TT_STRUCT" => last.parser = "parseStructDecl"
    /\ last.start.type = "TT_UNION" => last.parser = "parseUnionDecl"
    /\ last.start.type = "TT_ENUM" => last.parser = "parseEnumDecl"
    /\ last.start.type = "TT_TYPEDEF" => last.parser = "parseTypedefDecl"
    /\ last.parser = "unexpected"
         => last.start.type \notin TypeKeywords \cup {"TT_ID", "TT_OPAQUE", "TT_STRUCT",
                                                      "TT_UNION", "TT_ENUM", "TT_TYPEDEF"}

(***************************************************************************)
(* translate.c: names                                                      *)
(*                                                                         *)
(* A C string is a TLA+ string; a module name and a file name are kept as  *)
(* the sequence of their pieces (characters, or runs of characters that    *)
(* hold no separator), so that explodeName has something to split.  A type *)
(* is a record with the kind and the fields of the kind that mangleType    *)
(* reads.                                                                  *)
(***************************************************************************)

MaxArgs == 2

\* format's %zu: a size written in decimal
RECURSIVE formatSize(_)
formatSize(n) ==
  IF n < 10 THEN <<"0", "1", "2", "3", "4", "5", "6", "7", "8", "9">>[n + 1]
  ELSE formatSize(n \div 10) \o formatSize(n % 10)

\* explodeName: the segments of a name, in order; "." separates them
RECURSIVE explodeFrom(_, _, _, _)
explodeFrom(name, i, segment, exploded) ==
  IF i > Len(name) THEN Append(exploded, segment)
  ELSE IF name[i] = "."
       THEN explodeFrom(name, i + 1, "", Append(exploded, segment))
       ELSE explodeFrom(name, i + 1, segment \o name[i], exploded)

explodeName(name) == explodeFrom(name, 1, "", <<>>)

\* mangleModuleName: the loop over the exploded name, buffer starting as "__Z"
RECURSIVE mangleModuleNameFrom(_, _, _)
mangleModuleNameFrom(exploded, i, buffer) ==
  IF i > Len(exploded) THEN buffer
  ELSE mangleModuleNameFrom(exploded, i + 1,
                            buffer \o formatSize(Len(exploded[i])) \o exploded[i])

mangleModuleName(moduleName) == mangleModuleNameFrom(explodeName(moduleName), 1, "__Z")

mangleTypeName(moduleName, typeName) ==
  mangleModuleName(moduleName) \o formatSize(Len(typeName)) \o typeName

RECURSIVE mangleType(_), mangleTypeString(_), mangleTypeStringPrepending(_)
mangleType(type) ==
  CASE type.kind = "K_VOID" -> "v"
    [] type.kind = "K_UBYTE" -> "ub"
    [] type.kind = "K_BYTE" -> "sb"
    [] type.kind = "K_CHAR" -> "c"
    [] type.kind = "K_USHORT" -> "us"
    [] type.kind = "K_SHORT" -> "ss"
    [] type.kind = "K_UINT" -> "ui"
    [] type.kind = "K_INT" -> "si"
    [] type.kind = "K_WCHAR" -> "w"
    [] type.kind = "K_ULONG" -> "ul"
    [] type.kind = "K_LONG" -> "sl"
    [] type.kind = "K_FLOAT" -> "f"
    [] type.kind = "K_DOUBLE" -> "d"
    [] type.kind = "K_BOOL" -> "B"
    [] type.kind \in {"K_STRUCT", "K_UNION", "K_ENUM", "K_TYPEDEF"} ->
         Only({ "T" \o formatSize(Len(mangledTypeName)) \o mangledTypeName :
                mangledTypeName \in
                  {mangleTypeName(type.referenced.module, type.referenced.name)} })
    [] type.kind = "K_CONST" -> "C" \o mangleType(type.type)
    [] type.kind = "K_ARRAY" -> "A" \o formatSize(type.size) \o mangleType(type.type)
    [] type.kind = "K_PTR" -> "P" \o mangleType(type.type)
    [] type.kind = "K_FUNCTION_PTR" ->
         "F" \o mangleType(type.returnType) \o mangleTypeString(type.argumentTypes)

\* mangleTypeString with each encoding put in front of the buffer
mangleTypeStringPrepending(args) ==
  IF Len(args) = 0 THEN ""
  ELSE mangleType(args[Len(args)])
         \o mangleTypeStringPrepending(SubSeq(args, 1, Len(args) - 1))

\* mangleTypeString: the loop over the vector, buffer starting as ""
mangleTypeString(args) ==
  IF Len(args) = 0 THEN ""
  ELSE mangleTypeString(SubSeq(args, 1, Len(args) - 1)) \o mangleType(args[Len(args)])

mangleVarName(moduleName, id) ==
  mangleModuleName(moduleName) \o formatSize(Len(id)) \o id

mangleFunctionName(moduleName, id, argumentTypes) ==
  mangleModuleName(moduleName) \o formatSize(Len(id)) \o id
    \o mangleTypeString(argumentTypes)

(***************************************************************************)
(* translate.c: fragments, constants, globals, functions, files            *)
(*                                                                         *)
(* The functions thread a record st through their calls: the IR vector     *)
(* 'out' being filled, the fragment vector, the label generator, the temp  *)
(* allocator and the frame of the function, the operand the last           *)
(* expression gave and the operands destroyed so far.  The                 *)
(* frame keeps, in 'events', the calls it received and the steps of        *)
(* translateFunction between them; the last one holds the return-value     *)
(* access the function was translated with.                                *)
(***************************************************************************)

\* a loop over a vector: op applied to the state and to each element in order
RECURSIVE FoldLeft(_, _, _)
FoldLeft(op(_, _), st, vector) ==
  IF vector = <<>> THEN st ELSE FoldLeft(op, op(st, Head(vector)), Tail(vector))

\* typeSizeof, by the target size table
RECURSIVE typeSizeof(_)
typeSizeof(type) ==
  CASE type.kind \in {"K_UBYTE", "K_BYTE", "K_CHAR", "K_BOOL"} -> 1
    [] type.kind \in {"K_USHORT", "K_SHORT"} -> 2
    [] type.kind \in {"K_UINT", "K_INT", "K_WCHAR", "K_FLOAT"} -> 4
    [] type.kind \in {"K_ULONG", "K_LONG", "K_DOUBLE", "K_PTR", "K_FUNCTION_PTR"} -> 8
    [] type.kind = "K_CONST" -> typeSizeof(type.type)
    [] type.kind = "K_ARRAY" -> type.size * typeSizeof(type.type)

\* typeAlignof: a scalar is aligned to its size, an array as its elements
RECURSIVE typeAlignof(_)
typeAlignof(type) ==
  IF type.kind \in {"K_CONST", "K_ARRAY"} THEN typeAlignof(type.type) ELSE typeSizeof(type)

\* bssFragmentCreate with the size and the alignment exchanged
bssFragmentCreateSwapped(label, size, alignment) ==
  [kind |-> "FK_BSS", label |-> label, size |-> alignment, alignment |-> size]

bssFragmentCreate(label, size, alignment) ==
  [kind |-> "FK_BSS", label |-> label, size |-> size, alignment |-> alignment]

rodataFragmentCreate(label, alignment) ==
  [kind |-> "FK_RODATA", label |-> label, alignment |-> alignment, ir |-> <<>>]

dataFragmentCreate(label, alignment) ==
  [kind |-> "FK_DATA", label |-> label, alignment |-> alignment, ir |-> <<>>]

textFragmentCreate(label, frame) ==
  [kind |-> "FK_TEXT", label |-> label, frame |-> frame, ir |-> <<>>]

\* fragmentVectorInsert putting the fragment in front
fragmentVectorInsertFront(fragments, f) == <<f>> \o fragments

fragmentVectorInsert(fragments, f) == Append(fragments, f)

\* a label generator as the driver gets it from its constructor
labelGeneratorCtor == [next |-> 0]

\* generateCodeLabel (prefix "L_code_") and generateDataLabel ("L_data_"): the
\* label and the generator after it
generateLabel(labelGenerator, prefix) ==
  [label |-> prefix \o formatSize(labelGenerator.next),
   labelGenerator |-> [next |-> labelGenerator.next + 1]]

\* the name with its last two characters overwritten by 's' and the
\* terminator (a name has at least two characters)
codeFilenameToAssembyFilename(codeFilename) ==
  Only({ SubSeq([[i \in 1..len |-> codeFilename[i]] EXCEPT ![len - 1] = "s"], 1, len - 1) :
         len \in {Len(codeFilename)} })

\* the operand a constant of a type is turned into
constOperand(constExp) ==
  CASE constExp.constType \in {"CT_UBYTE", "CT_CHAR"} ->
         [kind |-> "UBYTE", value |-> constExp.value]
    [] constExp.constType = "CT_BYTE" -> [kind |-> "BYTE", value |-> constExp.value]
    [] constExp.constType = "CT_USHORT" -> [kind |-> "USHORT", value |-> constExp.value]
    [] constExp.constType = "CT_SHORT" -> [kind |-> "SHORT", value |-> constExp.value]
    [] constExp.constType \in {"CT_UINT", "CT_WCHAR"} ->
         [kind |-> "UINT", value |-> constExp.value]
    [] constExp.constType = "CT_INT" -> [kind |-> "INT", value |-> constExp.value]
    [] constExp.constType = "CT_ULONG" -> [kind |-> "ULONG", value |-> constExp.value]
    [] constExp.constType = "CT_LONG" -> [kind |-> "LONG", value |-> constExp.value]
    [] constExp.constType = "CT_FLOAT" -> [kind |-> "FLOAT", value |-> constExp.value]
    [] constExp.constType = "CT_DOUBLE" -> [kind |-> "DOUBLE", value |-> constExp.value]
    [] constExp.constType = "CT_BOOL" ->
         [kind |-> "UBYTE", value |-> IF constExp.value THEN 1 ELSE 0]
    [] constExp.constType = "CT_NULL" -> [kind |-> "ULONG", value |-> 0]

\* the read-only fragment of a string or wide string literal, put into the
\* fragment vector under a new data label; the operand is the label's name
stringFragment(constExp, st) ==
  Only({ [st EXCEPT
            !.fragments =
               fragmentVectorInsert(@,
                 [rodataFragmentCreate(l.label, "CHAR_WIDTH") EXCEPT
                    !.ir = <<[op |-> "CONST", size |-> 0,
                              arg |-> [kind |-> IF constExp.constType = "CT_STRING"
                                                THEN "STRING" ELSE "WSTRING",
                                       value |-> constExp.value]]>>]),
            !.labelGenerator = l.labelGenerator,
            !.operand = [kind |-> "NAME", value |-> l.label]] :
         l \in {generateLabel(st.labelGenerator, "L_data_")} })

RECURSIVE constantIsZero(_)
constantIsZero(initializer) ==
  CASE initializer.type = "NT_CONSTEXP" ->
         (CASE initializer.constType \in
                 {"CT_UBYTE", "CT_BYTE", "CT_CHAR", "CT_USHORT", "CT_SHORT", "CT_UINT",
                  "CT_INT", "CT_WCHAR", "CT_ULONG", "CT_LONG", "CT_FLOAT", "CT_DOUBLE"} ->
                 initializer.value = 0
            [] initializer.constType = "CT_BOOL" -> initializer.value = FALSE
            [] initializer.constType \in {"CT_STRING", "CT_WSTRING"} -> FALSE
            [] initializer.constType = "CT_NULL" -> TRUE)
    [] initializer.type = "NT_AGGREGATEINITEXP" ->
         \A i \in DOMAIN initializer.elements : constantIsZero(initializer.elements[i])

RECURSIVE constantToData(_, _)
constantToData(initializer, st) ==
  CASE initializer.type = "NT_CONSTEXP" ->
         IF initializer.constType \in {"CT_STRING", "CT_WSTRING"}
         THEN
                Only({ [s EXCEPT !.out = Append(@, [op |-> "CONST", size |-> "POINTER_WIDTH",
                                                    arg |-> s.operand])] :
                       s \in {stringFragment(initializer, st)} })
         ELSE   [st EXCEPT !.out =
                   Append(@, [op |-> "CONST",
                              size |-> CASE initializer.constType \in
                                              {"CT_UBYTE", "CT_BYTE", "CT_BOOL"} -> "BYTE_WIDTH"
                                         [] initializer.constType = "CT_CHAR" -> "CHAR_WIDTH"
                                         [] initializer.constType \in {"CT_USHORT", "CT_SHORT"} ->
                                              "SHORT_WIDTH"
                                         [] initializer.constType \in {"CT_UINT", "CT_INT"} ->
                                              "INT_WIDTH"
                                         [] initializer.constType = "CT_WCHAR" -> "WCHAR_WIDTH"
                                         [] initializer.constType \in {"CT_ULONG", "CT_LONG"} ->
                                              "LONG_WIDTH"
                                         [] initializer.constType = "CT_FLOAT" -> "FLOAT_WIDTH"
                                         [] initializer.constType = "CT_DOUBLE" -> "DOUBLE_WIDTH"
                                         [] initializer.constType = "CT_NULL" -> "POINTER_WIDTH",
                              arg |-> constOperand(initializer)])]
    [] initializer.type = "NT_AGGREGATEINITEXP" ->
         FoldLeft(LAMBDA s, element : constantToData(element, s), st, initializer.elements)

\* addGlobalAccesses: every overload of a function and every variable of the
\* table gets the access of its mangled name
addGlobalAccesses(stab, moduleName) ==
  [key \in DOMAIN stab |->
     IF stab[key].kind = "SK_FUNCTION"
     THEN [stab[key] EXCEPT !.overloadSet =
             [overloadIdx \in DOMAIN stab[key].overloadSet |->
                [stab[key].overloadSet[overloadIdx] EXCEPT !.access =
                   [label |-> mangleFunctionName(
                                moduleName, key,
                                stab[key].overloadSet[overloadIdx].argumentTypes)]]]]
     ELSE IF stab[key].kind = "SK_VAR"
     THEN [stab[key] EXCEPT !.access =
             [label |-> mangleVarName(moduleName, key),
              size |-> typeSizeof(stab[key].type),
              alignment |-> typeAlignof(stab[key].type)]]
     ELSE stab[key]]

\* typeKindof: the allocation hint of a type
RECURSIVE typeKindof(_)
typeKindof(type) ==
  CASE type.kind \in {"K_UBYTE", "K_BYTE", "K_BOOL", "K_CHAR", "K_USHORT", "K_SHORT",
                      "K_UINT", "K_INT", "K_WCHAR", "K_ULONG", "K_LONG", "K_PTR",
                      "K_FUNCTION_PTR", "K_ENUM"} -> "AH_GP"
    [] type.kind \in {"K_FLOAT", "K_DOUBLE"} -> "AH_SSE"
    [] type.kind \in {"K_STRUCT", "K_UNION", "K_ARRAY", "K_AGGREGATE_INIT"} -> "AH_MEM"
    [] type.kind = "K_CONST" -> typeKindof(type.type)

\* NEW: the next temp number and the allocator after it
tempAllocatorAllocate(tempAllocator) ==
  [temp |-> tempAllocator.next,
   tempAllocator |-> [next |-> tempAllocator.next + 1]]

\* TEMP(n, size, alignment, kind) for a temp that holds a value of a type
TEMP(n, type) ==
  [kind |-> "TEMP", value |-> n, size |-> typeSizeof(type),
   alignment |-> typeAlignof(type), hint |-> typeKindof(type)]

\* translateJumpIfNot and translateJumpIf: nothing is written to out
translateJumpIfNot(condition, st, target) == st

translateJumpIf(condition, st, target) == st

\* translateCast: the operand it is given, whatever the two types are
translateCast(from, fromType, toType, st) == [st EXCEPT !.operand = from]

\* translateExpression: the state after the expression, its operand in
\* 'operand'.  An operand given to irOperandDestroy is recorded in
\* 'destroyed'.  An expression that is NULL has its type read through the
\* null pointer: 'fault' records it.
RECURSIVE translateExpression(_, _)
translateExpression(exp, st) ==
  IF exp = NULL THEN [st EXCEPT !.fault = TRUE, !.operand = NULL]
  ELSE
  CASE exp.type = "NT_SEQEXP" ->
         Only({ translateExpression(exp.last,
                                    [p EXCEPT !.destroyed = Append(@, p.operand)]) :
                p \in {translateExpression(exp.prefix, st)} })
    [] exp.type = "NT_BINOPEXP" ->
         (CASE exp.op \in {"BO_ASSIGN", "BO_MULASSIGN", "BO_DIVASSIGN", "BO_MODASSIGN",
                          "BO_ADDASSIGN", "BO_SUBASSIGN", "BO_LSHIFTASSIGN",
                          "BO_LRSHIFTASSIGN", "BO_ARSHIFTASSIGN", "BO_BITANDASSIGN",
                          "BO_BITXORASSIGN", "BO_BITORASSIGN", "BO_BITAND", "BO_BITOR",
                          "BO_BITXOR", "BO_SPACESHIP", "BO_LSHIFT", "BO_LRSHIFT",
                          "BO_ARSHIFT", "BO_ADD", "BO_SUB", "BO_MUL", "BO_DIV",
                          "BO_MOD", "BO_ARRAYACCESS"} ->
                [st EXCEPT !.operand = NULL])
    [] exp.type = "NT_UNOPEXP" ->
         (CASE exp.op = "UO_DEREF" ->
                 Only({ [t EXCEPT
                           !.out = Append(@, [op |-> "MEM_LOAD",
                                              size |-> typeSizeof(exp.resultType),
                                              to |-> TEMP(new.temp, exp.resultType),
                                              arg |-> t.operand]),
                           !.operand = TEMP(new.temp, exp.resultType)] :
                        new \in {tempAllocatorAllocate(st.tempAllocator)},
                        t \in {translateExpression(
                                 exp.target,
                                 [st EXCEPT !.tempAllocator =
                                    tempAllocatorAllocate(@).tempAllocator])} })
            [] exp.op \in {"UO_ADDROF", "UO_PREINC", "UO_PREDEC", "UO_NEG", "UO_LNOT",
                           "UO_BITNOT", "UO_POSTINC", "UO_POSTDEC"} ->
                 [st EXCEPT !.operand = NULL])
    [] exp.type \in {"NT_COMPOPEXP", "NT_LANDASSIGNEXP", "NT_LORASSIGNEXP",
                     "NT_LANDEXP", "NT_LOREXP", "NT_STRUCTACCESSEXP",
                     "NT_STRUCTPTRACCESSEXP", "NT_FNCALLEXP",
                     "NT_AGGREGATEINITEXP"} ->
         [st EXCEPT !.operand = NULL]
    [] exp.type = "NT_TERNARYEXP" ->
         Only({ Only({ Only({ Only({
           [elseCast EXCEPT
              !.out = @ \o << [op |-> "MOVE", size |-> typeSizeof(exp.resultType),
                               to |-> TEMP(new.temp, exp.resultType),
                               arg |-> elseCast.operand],
                              [op |-> "LABEL", arg |-> end.label] >>,
              !.operand = TEMP(new.temp, exp.resultType)] :
             elseCast \in { Only({ translateCast(e.operand, exp.elseExp.resultType,
                                                 exp.resultType, e) :
                                   e \in {translateExpression(
                                            exp.elseExp,
                                            [thenCast EXCEPT
                                               !.out = @ \o
                                                 << [op |-> "MOVE",
                                                     size |-> typeSizeof(exp.resultType),
                                                     to |-> TEMP(new.temp, exp.resultType),
                                                     arg |-> thenCast.operand],
                                                    [op |-> "JUMP", arg |-> end.label],
                                                    [op |-> "LABEL",
                                                     arg |-> elseCase.label] >>])} }) } }) :
             thenCast \in { Only({ translateCast(t.operand, exp.thenExp.resultType,
                                                 exp.resultType, t) :
                                   t \in {translateExpression(
                                            exp.thenExp,
                                            translateJumpIfNot(
                                              exp.condition,
                                              [st EXCEPT
                                                 !.tempAllocator = new.tempAllocator,
                                                 !.labelGenerator = end.labelGenerator],
                                              elseCase.label))} }) } }) :
             end \in {generateLabel(elseCase.labelGenerator, "L_code_")} }) :
             new \in {tempAllocatorAllocate(st.tempAllocator)},
             elseCase \in {generateLabel(st.labelGenerator, "L_code_")} })
    [] exp.type = "NT_CONSTEXP" ->
         IF exp.constType \in {"CT_STRING", "CT_WSTRING"}
         THEN stringFragment(exp, st)
         ELSE [st EXCEPT !.operand = constOperand(exp)]
    [] exp.type = "NT_CASTEXP" ->
         Only({ translateCast(t.operand, exp.target.resultType, exp.resultType, t) :
                t \in {translateExpression(exp.target, st)} })
    [] exp.type = "NT_SIZEOFTYPEEXP" ->
         [st EXCEPT !.operand = [kind |-> "ULONG", value |-> typeSizeof(exp.targetType)]]
    [] exp.type = "NT_SIZEOFEXPEXP" ->
         Only({ [t EXCEPT !.destroyed = Append(@, t.operand),
                          !.operand = [kind |-> "ULONG",
                                       value |-> typeSizeof(exp.target.resultType)]] :
                t \in {translateExpression(exp.target, st)} })
    [] exp.type = "NT_ID" ->
         [st EXCEPT !.operand = [kind |-> "load", access |-> exp.id]]

\* translateStmt: the state after the statement; env holds outArg,
\* breakLabel, continueLabel, exitLabel and returnType.  The frame's
\* scopeStart and scopeEnd are recorded in its events, scopeEnd with the
\* body it is given, which it hands back to be merged into out.
RECURSIVE translateStmt(_, _, _)
translateStmt(stmt, st, env) ==
  IF stmt = NULL THEN st
  ELSE
  CASE stmt.type = "NT_COMPOUNDSTMT" ->
         Only({ [b EXCEPT !.out = st.out \o b.out,
                          !.frame.events = Append(@, [fn |-> "scopeEnd", body |-> b.out])] :
                b \in { FoldLeft(LAMBDA s, child : translateStmt(child, s, env),
                                 [st EXCEPT !.out = <<>>,
                                            !.frame.events = Append(@, [fn |-> "scopeStart"])],
                                 stmt.statements) } })
    [] stmt.type = "NT_IFSTMT" ->
         IF stmt.elseStmt = NULL
         THEN Only({ Only({ [t EXCEPT !.out = Append(@, [op |-> "LABEL", arg |-> skip.label])] :
                            t \in { translateStmt(
                                      stmt.thenStmt,
                                      translateJumpIfNot(
                                        stmt.condition,
                                        [st EXCEPT !.labelGenerator = skip.labelGenerator],
                                        skip.label),
                                      env) } }) :
                     skip \in {generateLabel(st.labelGenerator, "L_code_")} })
         ELSE Only({ Only({ Only({ Only({
                [e EXCEPT !.out = Append(@, [op |-> "LABEL", arg |-> end.label])] :
                  e \in { translateStmt(
                            stmt.elseStmt,
                            [t EXCEPT !.out = @ \o << [op |-> "JUMP", arg |-> end.label],
                                                      [op |-> "LABEL",
                                                       arg |-> elseCase.label] >>],
                            env) } }) :
                  t \in { translateStmt(
                            stmt.thenStmt,
                            translateJumpIfNot(
                              stmt.condition,
                              [st EXCEPT !.labelGenerator = end.labelGenerator],
                              elseCase.label),
                            env) } }) :
                  end \in {generateLabel(elseCase.labelGenerator, "L_code_")} }) :
                  elseCase \in {generateLabel(st.labelGenerator, "L_code_")} })
    [] stmt.type = "NT_WHILESTMT" ->
         Only({ Only({ Only({
           [b EXCEPT !.out = @ \o << [op |-> "JUMP", arg |-> start.label],
                                     [op |-> "LABEL", arg |-> end.label] >>] :
             b \in { translateStmt(
                       stmt.body,
                       translateJumpIfNot(
                         stmt.condition,
                         [st EXCEPT !.labelGenerator = end.labelGenerator,
                                    !.out = Append(@, [op |-> "LABEL", arg |-> start.label])],
                         end.label),
                       [env EXCEPT !.breakLabel = end.label,
                                   !.continueLabel = start.label]) } }) :
             end \in {generateLabel(start.labelGenerator, "L_code_")} }) :
             start \in {generateLabel(st.labelGenerator, "L_code_")} })
    [] stmt.type = "NT_DOWHILESTMT" ->
         Only({ Only({ Only({ Only({
           [translateJumpIf(stmt.condition,
                            [b EXCEPT !.out = Append(@, [op |-> "LABEL",
                                                         arg |-> loopContinue.label])],
                            start.label)
              EXCEPT !.out = Append(@, [op |-> "LABEL", arg |-> end.label])] :
             b \in { translateStmt(
                       stmt.body,
                       [st EXCEPT !.labelGenerator = end.labelGenerator,
                                  !.out = Append(@, [op |-> "LABEL", arg |-> start.label])],
                       [env EXCEPT !.breakLabel = end.label,
                                   !.continueLabel = loopContinue.label]) } }) :
             end \in {generateLabel(loopContinue.labelGenerator, "L_code_")} }) :
             loopContinue \in {generateLabel(start.labelGenerator, "L_code_")} }) :
             start \in {generateLabel(st.labelGenerator, "L_code_")} })
    [] stmt.type = "NT_FORSTMT" ->
         Only({ Only({ Only({ Only({ Only({
           [u EXCEPT !.out = st.out \o u.out
                               \o << [op |-> "JUMP", arg |-> start.label],
                                     [op |-> "LABEL", arg |-> end.label] >>,
                     !.destroyed = Append(@, u.operand),
                     !.frame.events =
                        Append(@, [fn |-> "scopeEnd",
                                   body |-> u.out
                                              \o << [op |-> "JUMP", arg |-> start.label],
                                                    [op |-> "LABEL", arg |-> end.label] >>])] :
             u \in { translateExpression(
                       stmt.update,
                       translateStmt(
                         stmt.body,
                         translateJumpIfNot(
                           stmt.condition,
                           [i EXCEPT !.out = Append(@, [op |-> "LABEL",
                                                        arg |-> start.label])],
                           end.label),
                         [env EXCEPT !.breakLabel = end.label,
                                     !.continueLabel = start.label])) } }) :
             i \in { IF stmt.initialize = NULL THEN s
                     ELSE IF stmt.initialize.type = "NT_VARDECL"
                     THEN translateStmt(stmt.initialize, s, env)
                     ELSE Only({ [x EXCEPT !.destroyed = Append(@, x.operand)] :
                                 x \in {translateExpression(stmt.initialize, s)} }) } }) :
             s \in { [st EXCEPT !.out = <<>>,
                                !.labelGenerator = end.labelGenerator,
                                !.frame.events = Append(@, [fn |-> "scopeStart"])] } }) :
             end \in {generateLabel(start.labelGenerator, "L_code_")} }) :
             start \in {generateLabel(st.labelGenerator, "L_code_")} })
    [] stmt.type = "NT_SWITCHSTMT" -> st
    [] stmt.type = "NT_BREAKSTMT" ->
         [st EXCEPT !.out = Append(@, [op |-> "JUMP", arg |-> env.breakLabel])]
    [] stmt.type = "NT_CONTINUESTMT" ->
         [st EXCEPT !.out = Append(@, [op |-> "JUMP", arg |-> env.continueLabel])]
    [] stmt.type = "NT_RETURNSTMT" ->
         Only({ [s EXCEPT !.out = Append(@, [op |-> "JUMP", arg |-> env.exitLabel])] :
                s \in { IF stmt.value # NULL
                        THEN Only({ [c EXCEPT !.out =
                                       Append(@, [op |-> "STORE", to |-> env.outArg,
                                                  arg |-> c.operand])] :
                                    c \in { Only({ translateCast(v.operand,
                                                                 stmt.value.resultType,
                                                                 env.returnType, v) :
                                                   v \in {translateExpression(stmt.value,
                                                                              st)} }) } })
                        ELSE st } })
    [] stmt.type = "NT_ASMSTMT" ->
         [st EXCEPT !.out = Append(@, [op |-> "ASM", arg |-> stmt.assembly])]
    [] stmt.type = "NT_EXPRESSIONSTMT" ->
         Only({ [x EXCEPT !.destroyed = Append(@, x.operand)] :
                x \in {translateExpression(stmt.expression, st)} })
    [] stmt.type \in {"NT_NULLSTMT", "NT_STRUCTDECL", "NT_STRUCTFORWARDDECL",
                      "NT_UNIONDECL", "NT_UNIONFORWARDDECL", "NT_ENUMDECL",
                      "NT_ENUMFORWARDDECL", "NT_TYPEDEFDECL"} -> st
    [] stmt.type = "NT_VARDECL" ->
         FoldLeft(LAMBDA s, pair :
                    Only({ IF pair.initializer # NULL
                           THEN Only({ [c EXCEPT !.out =
                                          Append(@, [op |-> "STORE",
                                                     to |-> [access |-> "allocLocal"],
                                                     arg |-> c.operand])] :
                                       c \in { Only({ translateCast(v.operand,
                                                                    pair.initializer.resultType,
                                                                    stmt.varType, v) :
                                                      v \in {translateExpression(
                                                               pair.initializer, a)} }) } })
                           ELSE a :
                           a \in {[s EXCEPT !.frame.events =
                                     Append(@, [fn |-> "allocLocal", type |-> stmt.varType])]} }),
                  st, stmt.idValuePairs)

\* translateGlobalVar: one fragment for each declared name
translateGlobalVar(varDecl, symbols, st) ==
  FoldLeft(LAMBDA s, pair :
             Only({ IF pair.initializer = NULL \/ constantIsZero(pair.initializer)
                    THEN [s EXCEPT !.fragments =
                            fragmentVectorInsert(@,
                              bssFragmentCreate(mangledName, typeSizeof(type),
                                                typeAlignof(type)))]
                    ELSE Only({ [d EXCEPT !.fragments =
                                   fragmentVectorInsert(@, [f EXCEPT !.ir = d.out])] :
                                f \in { IF type.kind = "K_CONST"
                                        THEN rodataFragmentCreate(mangledName, typeAlignof(type))
                                        ELSE dataFragmentCreate(mangledName, typeAlignof(type)) },
                                d \in {constantToData(pair.initializer, [s EXCEPT !.out = <<>>])} }) :
                    mangledName \in {symbols[pair.id].access.label},
                    type \in {symbols[pair.id].type} }),
           st, varDecl.idValuePairs)

\* translateFunction's loop over the formals, last formal first
allocFormalsReversed(function, st) ==
  FoldLeft(LAMBDA s, i :
             [s EXCEPT !.frame.events =
                Append(@, [fn |-> "allocArg", idx |-> Len(function.formals) + 1 - i,
                           type |-> function.formals[Len(function.formals) + 1 - i].type])],
           st, [i \in DOMAIN function.formals |-> i])

\* translateFunction's loop over the formals: allocArg for each
allocFormals(function, st) ==
  FoldLeft(LAMBDA s, i :
             [s EXCEPT !.frame.events =
                Append(@, [fn |-> "allocArg", idx |-> i, type |-> function.formals[i].type])],
           st, [i \in DOMAIN function.formals |-> i])

translateFunction(function, symbols, st) ==
  Only({ Only({ Only({ Only({
    [b EXCEPT !.fragments =
       fragmentVectorInsert(@,
         [textFragmentCreate(mangledName, b.frame) EXCEPT
            !.frame.events = Append(@, [fn |-> "fragmentVectorInsert", outArg |-> outArg]),
            !.ir = Append(b.out, [op |-> "LABEL", arg |-> exit.label])])] :
      b \in { FoldLeft(LAMBDA s, i :
                         translateStmt(function.statements[i],
                                       [s EXCEPT !.frame.events =
                                          Append(@, [fn |-> "translateStmt", idx |-> i])],
                                       [outArg |-> outArg, breakLabel |-> NULL,
                                        continueLabel |-> NULL,
                                        exitLabel |-> exit.label,
                                        returnType |-> returnType]),
                       [r EXCEPT !.labelGenerator = exit.labelGenerator],
                       [i \in DOMAIN function.statements |-> i]) } }) :
      r \in { IF returnType.kind = "K_VOID" THEN a
              ELSE [a EXCEPT !.frame.events =
                      Append(@, [fn |-> "allocRetVal", type |-> returnType])] },
      outArg \in { IF returnType.kind = "K_VOID" THEN NULL
                   ELSE [access |-> "allocRetVal"] },
      exit \in {generateLabel(a.labelGenerator, "L_code_")} }) :
      a \in {allocFormals(function,
                          [st EXCEPT !.out = <<>>,
                                     !.tempAllocator = [next |-> 0],
                                     !.frame = [name |-> mangledName, events |-> <<>>]])} }) :
      mangledName \in {symbols[function.id].overloadSet[function.overload].access.label},
      returnType \in {symbols[function.id].overloadSet[function.overload].returnType} })

translateBody(body, symbols, st) ==
  CASE body.type = "NT_VARDECL" -> translateGlobalVar(body, symbols, st)
    [] body.type = "NT_FUNCTION" -> translateFunction(body, symbols, st)
    [] OTHER -> st

\* translateFile: the fragments of the bodies of a file, with the label
\* generator the file is given
translateFile(file, labelGenerator) ==
  FoldLeft(LAMBDA s, body : translateBody(body, file.symbols, s),
           [out |-> <<>>, fragments |-> <<>>, labelGenerator |-> labelGenerator,
            tempAllocator |-> NULL, frame |-> NULL, operand |-> NULL,
            destroyed |-> <<>>, fault |-> FALSE],
           file.bodies).fragments

(***************************************************************************)
(* symbolTable.c: the environment                                          *)
(*                                                                         *)
(* A name is the sequence of its pieces, the scope-resolution token "::"   *)
(* being a piece of its own.  A SymbolTable is a function from the names   *)
(* it holds to their SymbolInfo; the ModuleTableMap of the imports is the  *)
(* hash map's two arrays keys[] and values[], of capacity slots; a key is   *)
(* NULL in an empty slot and a pointer to the module's name in a used one. *)
(* The scopes are a stack whose last element is the innermost scope.       *)
(***************************************************************************)
MaxScopes == 2
MaxImports == 2

isScoped(name) == \E i \in DOMAIN name : name[i] = "::"

\* the module is everything before the last "::", the short name what follows
splitName(name) ==
  Only({ [moduleName |-> SubSeq(name, 1, sep - 1),
          shortName |-> SubSeq(name, sep + 1, Len(name))] :
         sep \in { i \in DOMAIN name :
                     /\ name[i] = "::"
                     /\ \A j \in DOMAIN name : name[j] = "::" => j <= i } })

symbolTableGet(table, key) ==
  IF key \in DOMAIN table THEN table[key] ELSE NULL

isTypeAnswer(info) == IF info.kind = "SK_TYPE" THEN "YES" ELSE "NO"

undefinedIdentifier(token, filename) ==
  [value |-> "INDETERMINATE",
   report |-> << [fn |-> "reportError", format |-> "undefined identifier",
                  filename |-> filename, string |-> token.string] >>]

\* the loop over the scopes with the index running from the outermost scope
\* to the innermost one
lookupScopesOutermostFirst(scopes, name) ==
  Only({ IF inScopes = {} THEN NULL
         ELSE symbolTableGet(scopes[CHOOSE i \in inScopes :
                                      \A j \in inScopes : i <= j], name) :
         inScopes \in { { i \in DOMAIN scopes :
                            symbolTableGet(scopes[i], name) # NULL } } })

\* the loop over the scopes, from the top of the stack down: the entry of
\* the first table that has the name, NULL when none has it
lookupScopes(scopes, name) ==
  Only({ IF inScopes = {} THEN NULL
         ELSE symbolTableGet(scopes[CHOOSE i \in inScopes :
                                      \A j \in inScopes : j <= i], name) :
         inScopes \in { { i \in DOMAIN scopes :
                            symbolTableGet(scopes[i], name) # NULL } } })

\* The set of the outcomes of a call.  It has one element except where the
\* scoped arm passes an empty slot's NULL key to strcmp: there the call may
\* fault or go on as if the key differed.
environmentIsType(env, token, filename) ==
  IF isScoped(token.string)
  THEN Only({
         IF name.moduleName = env.currentModuleName
         THEN IF symbolTableGet(env.currentModule, name.shortName) # NULL
              THEN { [value |-> isTypeAnswer(symbolTableGet(env.currentModule,
                                                            name.shortName)),
                      report |-> <<>>] }
              ELSE { undefinedIdentifier(token, filename) }
         ELSE Only({
                (IF \E i \in DOMAIN env.imports.keys :
                      /\ env.imports.keys[i] = NULL
                      /\ \A h \in hits : i < h
                 THEN { [value |-> "SIGSEGV", report |-> <<>>] }
                 ELSE {})
                \cup
                (IF hits # {}
                 THEN { [value |-> isTypeAnswer(symbolTableGet(
                                     env.imports.values[
                                       CHOOSE h \in hits : \A g \in hits : h <= g],
                                     name.shortName)),
                         report |-> <<>>] }
                 ELSE { undefinedIdentifier(token, filename) }) :
                hits \in { { i \in DOMAIN env.imports.keys :
                               /\ env.imports.keys[i] = [type |-> "char*", string |-> name.moduleName]
                               /\ symbolTableGet(env.imports.values[i],
                                                 name.shortName) # NULL } } }) :
         name \in { splitName(token.string) } })
  ELSE Only({
         IF lookupScopes(env.scopes, token.string) # NULL
         THEN { [value |-> isTypeAnswer(lookupScopes(env.scopes, token.string)),
                 report |-> <<>>] }
         ELSE IF symbolTableGet(env.currentModule, token.string) # NULL
         THEN { [value |-> isTypeAnswer(symbolTableGet(env.currentModule,
                                                       token.string)),
                 report |-> <<>>] }
         ELSE IF found = {}
         THEN { undefinedIdentifier(token, filename) }
         ELSE Only({
                IF found = {first}
                THEN { [value |-> isTypeAnswer(symbolTableGet(
                                    env.imports.values[first], token.string)),
                        report |-> <<>>] }
                ELSE Only({
                       { [value |-> "INDETERMINATE",
                          report |->
                            << [fn |-> "reportError",
                                format |-> "identifier is ambiguous",
                                filename |-> filename, string |-> token.string],
                               [fn |-> "reportMessage",
                                format |-> "candidate module",
                                string |-> env.imports.keys[second].string],
                               [fn |-> "reportMessage",
                                format |-> "candidate module",
                                string |-> env.imports.keys[first].string] >>] } :
                       second \in { CHOOSE i \in found \ {first} :
                                      \A j \in found \ {first} : i <= j } }) :
                first \in { CHOOSE i \in found : \A j \in found : i <= j } }) :
         found \in { { i \in DOMAIN env.imports.keys :
                         /\ env.imports.keys[i] # NULL
                         /\ symbolTableGet(env.imports.values[i],
                                           token.string) # NULL } } })

(***************************************************************************)
(* The passes after the parser, as a state machine                         *)
(***************************************************************************)

\* the module names of the programs, as lists of segments
ModuleSegments == { <<"a">>, <<"a", "b">>, <<"tenletters", "b">> }

\* a name made of its segments
RECURSIVE joinName(_)
joinName(segments) ==
  IF Len(segments) = 1 THEN <<segments[1]>>
  ELSE joinName(SubSeq(segments, 1, Len(segments) - 1)) \o <<".", segments[Len(segments)]>>

Identifiers == {"x", "b1x", "elevenchars"}

\* the types of the arguments of the functions mangled; the named types
\* are four different types of the modules
ArgumentTypes ==
  { [kind |-> k] :
      k \in {"K_VOID", "K_UBYTE", "K_BYTE", "K_CHAR", "K_USHORT", "K_SHORT", "K_UINT",
             "K_INT", "K_WCHAR", "K_ULONG", "K_LONG", "K_FLOAT", "K_DOUBLE", "K_BOOL"} }
  \cup
  { [kind |-> "K_STRUCT", referenced |-> [module |-> <<"a">>, name |-> "S"]],
    [kind |-> "K_TYPEDEF", referenced |-> [module |-> <<"a">>, name |-> "D"]],
    [kind |-> "K_ENUM", referenced |-> [module |-> <<"a", ".", "b">>, name |-> "E"]],
    [kind |-> "K_UNION", referenced |-> [module |-> <<"a">>, name |-> "elevenchars"]],
    [kind |-> "K_CONST", type |-> [kind |-> "K_INT"]],
    [kind |-> "K_PTR", type |-> [kind |-> "K_INT"]],
    [kind |-> "K_PTR", type |-> [kind |-> "K_CONST", type |-> [kind |-> "K_USHORT"]]],
    [kind |-> "K_ARRAY", size |-> 12, type |-> [kind |-> "K_SHORT"]],
    [kind |-> "K_FUNCTION_PTR", returnType |-> [kind |-> "K_VOID"], argumentTypes |-> <<>>],
    [kind |-> "K_FUNCTION_PTR", returnType |-> [kind |-> "K_VOID"],
     argumentTypes |-> <<[kind |-> "K_INT"]>>],
    [kind |-> "K_FUNCTION_PTR", returnType |-> [kind |-> "K_INT"],
     argumentTypes |-> <<[kind |-> "K_DOUBLE"],
                         [kind |-> "K_PTR", type |-> [kind |-> "K_CHAR"]]>>] }

\* what is mangled: the variables and the function overloads of the modules
MangleCalls ==
  { [fn |-> "mangleVarName", segments |-> m, id |-> id, argumentTypes |-> <<>>] :
      m \in ModuleSegments, id \in Identifiers }
  \cup
  { [fn |-> "mangleFunctionName", segments |-> m, id |-> id, argumentTypes |-> args] :
      m \in ModuleSegments, id \in Identifiers,
      args \in SeqsUpTo(ArgumentTypes, MaxArgs) }

NotReturned == [type |-> "NotReturned"]

\* a mangling function applied on its own
MangleInit ==
  /\ call \in MangleCalls
  /\ pc = "mangle"
  /\ asts = <<>>

MaxBodies == 2

MaxCodeFiles == 2

\* the symbol table of a module before translate(): its variables, the
\* overloads of its functions and a type
Symbols ==
  [x |-> [kind |-> "SK_VAR", type |-> [kind |-> "K_INT"], access |-> NULL],
   z |-> [kind |-> "SK_VAR", type |-> [kind |-> "K_INT"], access |-> NULL],
   c |-> [kind |-> "SK_VAR", type |-> [kind |-> "K_CONST", type |-> [kind |-> "K_INT"]],
          access |-> NULL],
   k |-> [kind |-> "SK_VAR", type |-> [kind |-> "K_CONST", type |-> [kind |-> "K_INT"]],
          access |-> NULL],
   s |-> [kind |-> "SK_VAR", type |-> [kind |-> "K_PTR", type |-> [kind |-> "K_UBYTE"]],
          access |-> NULL],
   arr |-> [kind |-> "SK_VAR",
            type |-> [kind |-> "K_ARRAY", size |-> 3, type |-> [kind |-> "K_SHORT"]],
            access |-> NULL],
   p |-> [kind |-> "SK_VAR", type |-> [kind |-> "K_DOUBLE"], access |-> NULL],
   q |-> [kind |-> "SK_VAR", type |-> [kind |-> "K_DOUBLE"], access |-> NULL],
   names |-> [kind |-> "SK_VAR",
              type |-> [kind |-> "K_ARRAY", size |-> 2,
                        type |-> [kind |-> "K_PTR", type |-> [kind |-> "K_UBYTE"]]],
              access |-> NULL],
   S |-> [kind |-> "SK_TYPE"],
   f |-> [kind |-> "SK_FUNCTION",
          overloadSet |->
            << [returnType |-> [kind |-> "K_VOID"], argumentTypes |-> <<>>, access |-> NULL],
               [returnType |-> [kind |-> "K_INT"],
                argumentTypes |-> <<[kind |-> "K_INT"], [kind |-> "K_DOUBLE"]>>,
                access |-> NULL] >>]]

\* a constant expression as the type checker leaves it: its ConstType, its
\* value and the type of the expression
constExp(constType, value) ==
  [type |-> "NT_CONSTEXP", constType |-> constType, value |-> value,
   resultType |->
     [CT_UBYTE |-> [kind |-> "K_UBYTE"], CT_BYTE |-> [kind |-> "K_BYTE"],
      CT_CHAR |-> [kind |-> "K_CHAR"], CT_USHORT |-> [kind |-> "K_USHORT"],
      CT_SHORT |-> [kind |-> "K_SHORT"], CT_UINT |-> [kind |-> "K_UINT"],
      CT_INT |-> [kind |-> "K_INT"], CT_WCHAR |-> [kind |-> "K_WCHAR"],
      CT_ULONG |-> [kind |-> "K_ULONG"], CT_LONG |-> [kind |-> "K_LONG"],
      CT_FLOAT |-> [kind |-> "K_FLOAT"], CT_DOUBLE |-> [kind |-> "K_DOUBLE"],
      CT_BOOL |-> [kind |-> "K_BOOL"],
      CT_STRING |-> [kind |-> "K_PTR", type |-> [kind |-> "K_UBYTE"]],
      CT_WSTRING |-> [kind |-> "K_PTR", type |-> [kind |-> "K_WCHAR"]],
      CT_NULL |-> [kind |-> "K_PTR", type |-> [kind |-> "K_VOID"]]][constType]]

\* the top-level bodies of the code files: variable declarations without
\* and with initializers, a type declaration, two overloads of a function
Bodies ==
  { [type |-> "NT_VARDECL", idValuePairs |-> <<[id |-> "x", initializer |-> NULL]>>],
    [type |-> "NT_VARDECL",
     idValuePairs |-> <<[id |-> "z", initializer |-> constExp("CT_INT", 0)]>>],
    [type |-> "NT_VARDECL",
     idValuePairs |-> <<[id |-> "c", initializer |-> constExp("CT_INT", 5)]>>],
    [type |-> "NT_VARDECL",
     idValuePairs |-> <<[id |-> "k", initializer |-> constExp("CT_INT", 0)]>>],
    [type |-> "NT_VARDECL",
     idValuePairs |-> <<[id |-> "s", initializer |-> constExp("CT_STRING", "hi")]>>],
    [type |-> "NT_VARDECL",
     idValuePairs |->
       <<[id |-> "arr",
          initializer |-> [type |-> "NT_AGGREGATEINITEXP",
                           elements |-> <<constExp("CT_SHORT", 0), constExp("CT_SHORT", 0),
                                          constExp("CT_SHORT", 0)>>]]>>],
    [type |-> "NT_VARDECL",
     idValuePairs |-> <<[id |-> "p", initializer |-> NULL],
                        [id |-> "q", initializer |-> constExp("CT_DOUBLE", 1)]>>],
    [type |-> "NT_VARDECL",
     idValuePairs |->
       <<[id |-> "names",
          initializer |-> [type |-> "NT_AGGREGATEINITEXP",
                           elements |-> <<constExp("CT_STRING", "one"),
                                          constExp("CT_NULL", 0)>>]]>>],
    [type |-> "NT_STRUCTDECL", id |-> "S"],
    [type |-> "NT_FUNCTION", id |-> "f", overload |-> 1, formals |-> <<>>,
     statements |-> <<[type |-> "NT_RETURNSTMT", value |-> NULL]>>],
    [type |-> "NT_FUNCTION", id |-> "f", overload |-> 2,
     formals |-> <<[id |-> "a", type |-> [kind |-> "K_INT"]],
                   [id |-> "b", type |-> [kind |-> "K_DOUBLE"]]>>,
     statements |->
       << [type |-> "NT_VARDECL", varType |-> [kind |-> "K_PTR", type |-> [kind |-> "K_UBYTE"]],
           idValuePairs |-> <<[id |-> "l", initializer |-> constExp("CT_STRING", "lit")]>>],
          [type |-> "NT_EXPRESSIONSTMT",
           expression |-> [type |-> "NT_SEQEXP", prefix |-> constExp("CT_WSTRING", "w"),
                           last |-> constExp("CT_BOOL", TRUE)]],
          [type |-> "NT_RETURNSTMT", value |-> constExp("CT_INT", 1)] >>] }

\* the names and the modules of the code files of a program, by position
FileNames ==
  << [filename |-> <<"a", ".", "s", "r", "c">>, module |-> <<"a">>],
     [filename |-> <<"b", "c", ".", "s", "r", "c">>, module |-> <<"a", ".", "b">>],
     [filename |-> <<"m", ".", "t", "c">>, module |-> <<"tenletters", ".", "b">>] >>

\* the sequences of at most n different elements of S
DistinctSeqs(S, n) ==
  { q \in SeqsUpTo(S, n) : \A i, j \in DOMAIN q : i # j => q[i] # q[j] }

\* the programs handed to translate(): one code file of any bodies under any
\* of the names, or several files that each hold at most one body
Programs ==
  { [decls |-> <<>>,
     codes |-> <<[filename |-> n.filename, module |-> n.module, symbols |-> Symbols,
                  bodies |-> bs]>>] :
      n \in {FileNames[i] : i \in {1, 3}}, bs \in DistinctSeqs(Bodies, MaxBodies) }
  \cup
  { [decls |-> <<[filename |-> <<"a", ".", "d", "e", "c", "l">>, module |-> <<"a">>,
                  symbols |-> Symbols, bodies |-> <<>>]>>,
     codes |-> [i \in DOMAIN bss |->
                  [filename |-> FileNames[i].filename, module |-> FileNames[i].module,
                   symbols |-> Symbols, bodies |-> bss[i]]]] :
      bss \in SeqsUpTo(SeqsUpTo({ b \in Bodies :
                                    \/ b.type = "NT_FUNCTION"
                                    \/ /\ b.type = "NT_VARDECL"
                                       /\ b.idValuePairs[1].id \in {"s", "x"} }, 1),
                       MaxCodeFiles) }

\* translate() on a program
TranslateInit ==
  /\ asts \in Programs
  /\ pc = "translate"
  /\ call = <<>>

\* environmentIsType applied on its own: an environment made by
\* environmentInit for the module c, with up to MaxScopes scopes pushed and
\* the imports m and n put into a map of MaxImports slots, and an identifier
\* token, plain or scoped.  A module has one slot at most; a key is NULL or
\* points to the module's name; the value of an empty slot is never read.
EnvInit ==
  /\ pc = "isType"
  /\ asts = <<>>
  /\ \E tables \in { { <<>>,
                       <<"T">> :> [kind |-> "SK_TYPE"],
                       <<"T">> :> [kind |-> "SK_VAR"],
                       (<<"T">> :> [kind |-> "SK_FUNCTION"])
                         @@ (<<"v">> :> [kind |-> "SK_TYPE"]) } } :
       \E current \in tables,
          scopes \in SeqsUpTo(tables, MaxScopes),
          slots \in { s \in [1..MaxImports ->
                               {[key |-> NULL, value |-> <<>>]}
                               \cup { [key |-> [type |-> "char*", string |-> k],
                                        value |-> t] :
                                        k \in {<<"m">>, <<"n">>}, t \in tables }] :
                        \A i, j \in 1..MaxImports :
                          (i # j /\ s[i].key # NULL) => s[i].key # s[j].key },
          string \in { <<"T">>, <<"v">>, <<"m", "::", "T">>, <<"c", "::", "v">> } :
         call = [fn |-> "environmentIsType",
                 env |-> [currentModule |-> current, currentModuleName |-> <<"c">>,
                          imports |-> [capacity |-> MaxImports,
                                       keys |-> [i \in 1..MaxImports |-> slots[i].key],
                                       values |-> [i \in 1..MaxImports |-> slots[i].value]],
                          scopes |-> scopes],
                 token |-> [type |-> "TT_ID", string |-> string],
                 filename |-> "a.tc"]

MaxExpDepth == 2
MaxStmtDepth == 2

\* The expressions of a type-checked function body, to a depth: constants,
\* an identifier of type int**, every binary and unary operator and every
\* other kind of expression node on fixed operands, and the kinds that hold
\* expressions (dereference, cast, sizeof, sequence, ternary) on the
\* expressions one level below.  The arms of a ternary have one type, or are
\* a ubyte and an int, and then the ternary is an int.
RECURSIVE Expressions(_)
Expressions(depth) ==
  IF depth = 0
  THEN { constExp("CT_UBYTE", 1), constExp("CT_INT", 300), constExp("CT_STRING", "s"),
         [type |-> "NT_ID", id |-> "pp",
          resultType |-> [kind |-> "K_PTR",
                          type |-> [kind |-> "K_PTR", type |-> [kind |-> "K_INT"]]]] }
  ELSE
    Expressions(depth - 1)
    \cup { [type |-> "NT_BINOPEXP", op |-> op, lhs |-> constExp("CT_INT", 300),
            rhs |-> constExp("CT_UBYTE", 1), resultType |-> [kind |-> "K_INT"]] :
           op \in {"BO_ASSIGN", "BO_MULASSIGN", "BO_DIVASSIGN", "BO_MODASSIGN",
                   "BO_ADDASSIGN", "BO_SUBASSIGN", "BO_LSHIFTASSIGN", "BO_LRSHIFTASSIGN",
                   "BO_ARSHIFTASSIGN", "BO_BITANDASSIGN", "BO_BITXORASSIGN",
                   "BO_BITORASSIGN", "BO_BITAND", "BO_BITOR", "BO_BITXOR",
                   "BO_SPACESHIP", "BO_LSHIFT", "BO_LRSHIFT", "BO_ARSHIFT", "BO_ADD",
                   "BO_SUB", "BO_MUL", "BO_DIV", "BO_MOD", "BO_ARRAYACCESS"} }
    \cup { [type |-> "NT_UNOPEXP", op |-> op, target |-> constExp("CT_INT", 300),
            resultType |-> [kind |-> "K_INT"]] :
           op \in {"UO_ADDROF", "UO_PREINC", "UO_PREDEC", "UO_NEG", "UO_LNOT",
                   "UO_BITNOT", "UO_POSTINC", "UO_POSTDEC"} }
    \cup { [type |-> kind, resultType |-> [kind |-> "K_INT"]] :
           kind \in {"NT_COMPOPEXP", "NT_LANDASSIGNEXP", "NT_LORASSIGNEXP", "NT_LANDEXP",
                     "NT_LOREXP", "NT_STRUCTACCESSEXP", "NT_STRUCTPTRACCESSEXP",
                     "NT_FNCALLEXP", "NT_AGGREGATEINITEXP"} }
    \cup { [type |-> "NT_SIZEOFTYPEEXP", targetType |-> [kind |-> "K_DOUBLE"],
            resultType |-> [kind |-> "K_ULONG"]] }
    \cup { [type |-> "NT_UNOPEXP", op |-> "UO_DEREF", target |-> e,
            resultType |-> e.resultType.type] :
           e \in { x \in Expressions(depth - 1) : x.resultType.kind = "K_PTR" } }
    \cup { [type |-> "NT_CASTEXP", target |-> e, resultType |-> [kind |-> "K_LONG"]] :
           e \in Expressions(depth - 1) }
    \cup { [type |-> "NT_SIZEOFEXPEXP", target |-> e, resultType |-> [kind |-> "K_ULONG"]] :
           e \in Expressions(depth - 1) }
    \cup { [type |-> "NT_SEQEXP", prefix |-> pair[1], last |-> pair[2],
            resultType |-> pair[2].resultType] :
           pair \in (Expressions(depth - 1) \X {constExp("CT_UBYTE", 1)})
                    \cup ({constExp("CT_UBYTE", 1)} \X Expressions(depth - 1)) }
    \cup { [type |-> "NT_TERNARYEXP", condition |-> constExp("CT_BOOL", TRUE),
            thenExp |-> pair[1], elseExp |-> pair[2],
            resultType |-> IF pair[1].resultType = pair[2].resultType
                           THEN pair[1].resultType ELSE [kind |-> "K_INT"]] :
           pair \in { q \in (Expressions(depth - 1) \X Expressions(0))
                            \cup (Expressions(0) \X Expressions(depth - 1)) :
                        \/ q[1].resultType = q[2].resultType
                        \/ {q[1].resultType.kind, q[2].resultType.kind}
                             = {"K_UBYTE", "K_INT"} } }

\* The statements of a type-checked function body, to a depth of loops and
\* ifs: inLoop says whether a loop is around them (break and continue are
\* statements then), value is what a return statement returns (NULL in a
\* function that returns void).  A do-while statement and a for statement
\* that starts with an expression hold a statement of depth 0.  At every
\* depth a statement also comes as the first of the two statements of a
\* compound statement.
RECURSIVE Statements(_, _, _)
Statements(depth, inLoop, value) ==
  LET leaves ==
        { [type |-> "NT_RETURNSTMT", value |-> value],
          [type |-> "NT_VARDECL", varType |-> [kind |-> "K_INT"],
           idValuePairs |-> <<[id |-> "l", initializer |-> constExp("CT_INT", 300)]>>] }
      jumps == {[type |-> "NT_BREAKSTMT"], [type |-> "NT_CONTINUESTMT"]}
      second == IF inLoop THEN [type |-> "NT_BREAKSTMT"]
                ELSE [type |-> "NT_RETURNSTMT", value |-> value]
      below == IF depth = 0 THEN {} ELSE Statements(depth - 1, inLoop, value)
      belowInLoop == IF depth = 0 THEN {} ELSE Statements(depth - 1, TRUE, value)
      single ==
        leaves
        \cup (IF inLoop THEN jumps ELSE {})
        \cup (IF depth = 0 THEN {}
              ELSE { [type |-> "NT_SWITCHSTMT"] }
                   \cup { [type |-> "NT_DOWHILESTMT", body |-> s,
                           condition |-> constExp("CT_BOOL", TRUE)] :
                          s \in leaves \cup jumps }
                   \cup { [type |-> "NT_FORSTMT",
                           initialize |-> [type |-> "NT_BINOPEXP", op |-> "BO_ASSIGN",
                                           resultType |-> [kind |-> "K_INT"]],
                           condition |-> constExp("CT_BOOL", TRUE),
                           update |-> [type |-> "NT_UNOPEXP", op |-> "UO_POSTINC",
                                       resultType |-> [kind |-> "K_INT"]],
                           body |-> s] :
                          s \in leaves \cup jumps })
        \cup { [type |-> "NT_IFSTMT", condition |-> constExp("CT_BOOL", TRUE),
                thenStmt |-> s, elseStmt |-> t] :
               s \in below, t \in {NULL, second} }
        \cup { [type |-> "NT_WHILESTMT", condition |-> constExp("CT_BOOL", TRUE),
                body |-> s] :
               s \in belowInLoop }
        \cup { [type |-> "NT_FORSTMT", initialize |-> parts[1],
                condition |-> constExp("CT_BOOL", TRUE), update |-> parts[2],
                body |-> s] :
               parts \in { <<NULL, NULL>>,
                           << [type |-> "NT_VARDECL", varType |-> [kind |-> "K_INT"],
                               idValuePairs |->
                                 <<[id |-> "i", initializer |-> constExp("CT_UBYTE", 1)]>>],
                              [type |-> "NT_UNOPEXP", op |-> "UO_POSTINC",
                               resultType |-> [kind |-> "K_INT"]] >> },
               s \in belowInLoop }
  IN single
     \cup { [type |-> "NT_COMPOUNDSTMT", statements |-> ss] :
            ss \in {<<>>} \cup { <<s, second>> : s \in single } }

\* translateFunction applied on its own, to a function of the module a whose
\* symbols have their accesses: void f() or int f(int a, double b), the body
\* one statement, or one expression as a statement, as the value returned or
\* as the initializer of a local
FunctionInit ==
  /\ pc = "function"
  /\ asts = <<>>
  /\ \E overload \in {1, 2} :
       \E statement \in
            Statements(MaxStmtDepth, FALSE,
                       IF overload = 1 THEN NULL ELSE constExp("CT_UBYTE", 1))
            \cup { [type |-> "NT_EXPRESSIONSTMT", expression |-> e] :
                   e \in Expressions(MaxExpDepth) }
            \cup { [type |-> "NT_RETURNSTMT", value |-> e] :
                   e \in { x \in Expressions(MaxExpDepth) : overload = 2 } }
            \cup { [type |-> "NT_VARDECL", varType |-> [kind |-> "K_LONG"],
                    idValuePairs |-> <<[id |-> "l", initializer |-> e]>>] :
                   e \in Expressions(MaxExpDepth) } :
         call = [fn |-> "translateFunction",
                 function |-> [type |-> "NT_FUNCTION", id |-> "f", overload |-> overload,
                               formals |-> IF overload = 1 THEN <<>>
                                           ELSE <<[id |-> "a", type |-> [kind |-> "K_INT"]],
                                                  [id |-> "b",
                                                   type |-> [kind |-> "K_DOUBLE"]]>>,
                               statements |-> <<statement>>],
                 symbols |-> addGlobalAccesses(Symbols, <<"a">>)]

PassesInit ==
  /\ MangleInit \/ TranslateInit \/ EnvInit \/ FunctionInit
  /\ returned = NotReturned
  /\ fragmentMap = <<>>
  /\ idx = 1
  /\ fileList = <<>>
  /\ errored = FALSE
  /\ retval = 0
  /\ module = NULL
  /\ imports = <<>>
  /\ bodies = <<>>
  /\ last = NoLast

MangleVarName ==
  /\ pc = "mangle"
  /\ call.fn = "mangleVarName"
  /\ returned' = mangleVarName(joinName(call.segments), call.id)
  /\ pc' = "mangled"
  /\ UNCHANGED <<idx, asts, fragmentMap, call>>
  /\ UNCHANGED parserVars

MangleFunctionName ==
  /\ pc = "mangle"
  /\ call.fn = "mangleFunctionName"
  /\ returned' = mangleFunctionName(joinName(call.segments), call.id, call.argumentTypes)
  /\ pc' = "mangled"
  /\ UNCHANGED <<idx, asts, fragmentMap, call>>
  /\ UNCHANGED parserVars

\* translate(): the map is set up and the symbols of every declaration and
\* code file get their accesses
TranslateAddGlobalAccesses ==
  /\ pc = "translate"
  /\ fragmentMap' = <<>>
  /\ asts' = [decls |-> [i \in DOMAIN asts.decls |->
                           [asts.decls[i] EXCEPT
                              !.symbols = addGlobalAccesses(@, asts.decls[i].module)]],
              codes |-> [i \in DOMAIN asts.codes |->
                           [asts.codes[i] EXCEPT
                              !.symbols = addGlobalAccesses(@, asts.codes[i].module)]]]
  /\ pc' = "translateFiles"
  /\ UNCHANGED <<idx, call, returned>>
  /\ UNCHANGED parserVars

\* translate(): one pass of the loop over the code files; the file is
\* translated with a label generator of its own and put into the map
TranslateFile ==
  /\ pc = "translateFiles"
  /\ idx <= Len(asts.codes)
  /\ fragmentMap' =
       Append(fragmentMap,
              [key |-> codeFilenameToAssembyFilename(asts.codes[idx].filename),
               value |-> translateFile(asts.codes[idx], labelGeneratorCtor)])
  /\ idx' = idx + 1
  /\ UNCHANGED <<pc, asts, call, returned>>
  /\ UNCHANGED parserVars

TranslateReturn ==
  /\ pc = "translateFiles"
  /\ idx > Len(asts.codes)
  /\ pc' = "translated"
  /\ UNCHANGED <<idx, asts, fragmentMap, call, returned>>
  /\ UNCHANGED parserVars

\* the call returns one of its outcomes: the answer and what it reported
EnvironmentIsType ==
  /\ pc = "isType"
  /\ returned' \in environmentIsType(call.env, call.token, call.filename)
  /\ pc' = "isTypeReturned"
  /\ UNCHANGED <<idx, asts, fragmentMap, call>>
  /\ UNCHANGED parserVars

\* translateFunction on the function of the call, with new fragment vector
\* and label generator: what it leaves behind, or the fault of a read
\* through a null pointer
TranslateFunction ==
  /\ pc = "function"
  /\ \E st \in { translateFunction(call.function, call.symbols,
                                    [out |-> <<>>, fragments |-> <<>>,
                                     labelGenerator |-> labelGeneratorCtor,
                                     tempAllocator |-> NULL, frame |-> NULL,
                                     operand |-> NULL, destroyed |-> <<>>,
                                     fault |-> FALSE]) } :
       returned' \in {st} \cup (IF st.fault THEN {[type |-> "SIGSEGV"]} ELSE {})
  /\ pc' = "functionTranslated"
  /\ UNCHANGED <<idx, asts, fragmentMap, call>>
  /\ UNCHANGED parserVars

PassesNext ==
  \/ MangleVarName
  \/ MangleFunctionName
  \/ TranslateAddGlobalAccesses
  \/ TranslateFile
  \/ TranslateReturn
  \/ EnvironmentIsType
  \/ TranslateFunction

PassesSpec == PassesInit /\ [][PassesNext]_vars

(***************************************************************************)
(* The translator's contract, claim by claim                               *)
(***************************************************************************)

\* the strings, each behind its length in decimal
RECURSIVE LengthPrefixed(_)
LengthPrefixed(strings) ==
  IF strings = <<>> THEN ""
  ELSE formatSize(Len(Head(strings))) \o Head(strings) \o LengthPrefixed(Tail(strings))

\* the mangled name of a global: "__Z", the module's segments, the identifier
GlobalName(segments, id) == "__Z" \o LengthPrefixed(Append(segments, id))

\* the segments of the name of a module
SegmentsOf(moduleName) == CHOOSE segments \in ModuleSegments : joinName(segments) = moduleName

\* the type-encoding table
RECURSIVE Encoding(_), Encodings(_)
Encoding(type) ==
  CASE type.kind = "K_VOID" -> "v"
    [] type.kind = "K_UBYTE" -> "ub"
    [] type.kind = "K_BYTE" -> "sb"
    [] type.kind = "K_CHAR" -> "c"
    [] type.kind = "K_WCHAR" -> "w"
    [] type.kind = "K_USHORT" -> "us"
    [] type.kind = "K_SHORT" -> "ss"
    [] type.kind = "K_UINT" -> "ui"
    [] type.kind = "K_INT" -> "si"
    [] type.kind = "K_ULONG" -> "ul"
    [] type.kind = "K_LONG" -> "sl"
    [] type.kind = "K_FLOAT" -> "f"
    [] type.kind = "K_DOUBLE" -> "d"
    [] type.kind = "K_BOOL" -> "B"
    [] type.kind \in {"K_STRUCT", "K_UNION", "K_ENUM", "K_TYPEDEF"} ->
         "T" \o LengthPrefixed(
                  <<GlobalName(SegmentsOf(type.referenced.module), type.referenced.name)>>)
    [] type.kind = "K_CONST" -> "C" \o Encoding(type.type)
    [] type.kind = "K_ARRAY" -> "A" \o formatSize(type.size) \o Encoding(type.type)
    [] type.kind = "K_PTR" -> "P" \o Encoding(type.type)
    [] type.kind = "K_FUNCTION_PTR" ->
         "F" \o Encoding(type.returnType) \o Encodings(type.argumentTypes)

\* the encodings of the types, concatenated in order
Encodings(types) ==
  IF types = <<>> THEN "" ELSE Encoding(Head(types)) \o Encodings(Tail(types))

\* C11: the mangled name of a variable is "__Z", then each segment of the
\* module behind its length in decimal, then the identifier behind its
\* length; the mangled name of a function is that string followed by the
\* encodings of its argument types, in argument order, as the table gives them
C11_MangledNameFormat ==
  pc = "mangled" =>
    returned = GlobalName(call.segments, call.id) \o Encodings(call.argumentTypes)

\* a function of a two-segment module mangled, with a two-digit length, an
\* array and a function pointer among its arguments
C11_Witness ==
  /\ pc = "mangled"
  /\ call.fn = "mangleFunctionName"
  /\ call.segments = <<"tenletters", "b">>
  /\ call.argumentTypes =
       <<[kind |-> "K_ARRAY", size |-> 12, type |-> [kind |-> "K_SHORT"]],
         [kind |-> "K_FUNCTION_PTR", returnType |-> [kind |-> "K_VOID"],
          argumentTypes |-> <<[kind |-> "K_INT"]>>]>>
  /\ returned = "__Z10tenletters1b11elevencharsA12ssFvsi"

\* the name a call of MangleCalls gives
Mangled(c) ==
  IF c.fn = "mangleVarName" THEN mangleVarName(joinName(c.segments), c.id)
  ELSE mangleFunctionName(joinName(c.segments), c.id, c.argumentTypes)

\* C12: mangling is injective: two distinct (module, name, argument types)
\* triples never get the same function name and two distinct (module, name)
\* pairs never get the same variable name
C12_ManglingInjective ==
  pc = "mangled" =>
    \A other \in MangleCalls :
      (other.fn = call.fn /\ other # call) => Mangled(other) # returned

\* the fragments of the files translated so far, in one vector
AllFragments == Flatten([i \in DOMAIN fragmentMap |-> fragmentMap[i].value])

\* C13: across the files translated by one call of translate(), no two
\* fragments carry the same label
C13_LabelsUniqueAcrossFiles ==
  \A i, j \in DOMAIN AllFragments :
    i # j => AllFragments[i].label # AllFragments[j].label

\* the declared names of the top-level variable declarations of a file
GlobalPairs(file) ==
  UNION { {file.bodies[b].idValuePairs[n] : n \in DOMAIN file.bodies[b].idValuePairs} :
          b \in {b \in DOMAIN file.bodies : file.bodies[b].type = "NT_VARDECL"} }

\* an initializer that is all zero: a zero number, false, null, or an
\* aggregate of such; a string never is
RECURSIVE AllZero(_)
AllZero(initializer) ==
  IF initializer.type = "NT_AGGREGATEINITEXP"
  THEN \A i \in DOMAIN initializer.elements : AllZero(initializer.elements[i])
  ELSE /\ initializer.constType \notin {"CT_STRING", "CT_WSTRING"}
       /\ \/ initializer.constType = "CT_NULL"
          \/ initializer.constType = "CT_BOOL" /\ initializer.value = FALSE
          \/ initializer.constType # "CT_BOOL" /\ initializer.value = 0

\* the fragments of the i-th file that carry the label
Labelled(i, label) ==
  {n \in DOMAIN fragmentMap[i].value : fragmentMap[i].value[n].label = label}

\* C14: for every declared name of a top-level variable declaration whose
\* initializer is absent or all zero, exactly one fragment carries the
\* variable's mangled name, and it is a BSS fragment of the size and the
\* alignment of the variable's type, without data entries
C14_ZeroInitializedIsBss ==
  \A i \in DOMAIN fragmentMap :
    \A pair \in GlobalPairs(asts.codes[i]) :
      (pair.initializer = NULL \/ AllZero(pair.initializer)) =>
        \E n \in DOMAIN fragmentMap[i].value :
          /\ Labelled(i, GlobalName(SegmentsOf(asts.codes[i].module), pair.id)) = {n}
          /\ fragmentMap[i].value[n] =
               [kind |-> "FK_BSS",
                label |-> GlobalName(SegmentsOf(asts.codes[i].module), pair.id),
                size |-> typeSizeof(Symbols[pair.id].type),
                alignment |-> typeAlignof(Symbols[pair.id].type)]

\* 'short[3] arr = {0, 0, 0};' and 'int x;' of module a, translated
C14_Witness ==
  /\ pc = "translated"
  /\ Len(fragmentMap) = 1
  /\ fragmentMap[1].value =
       << [kind |-> "FK_BSS", label |-> "__Z1a3arr", size |-> 6, alignment |-> 2],
          [kind |-> "FK_BSS", label |-> "__Z1a1x", size |-> 4, alignment |-> 4] >>

\* C15: the fragment of a top-level variable of a const-qualified type is a
\* read-only data fragment
C15_ConstIsReadOnly ==
  \A i \in DOMAIN fragmentMap :
    \A pair \in GlobalPairs(asts.codes[i]) :
      Symbols[pair.id].type.kind = "K_CONST" =>
        \A n \in Labelled(i, GlobalName(SegmentsOf(asts.codes[i].module), pair.id)) :
          fragmentMap[i].value[n].kind = "FK_RODATA"

\* the string and wide string literals of a node, in the order they are met
RECURSIVE Literals(_)
Literals(node) ==
  CASE node = NULL -> <<>>
    [] node.type = "NT_CONSTEXP" ->
         IF node.constType \in {"CT_STRING", "CT_WSTRING"} THEN <<node.value>> ELSE <<>>
    [] node.type = "NT_AGGREGATEINITEXP" ->
         Flatten([i \in DOMAIN node.elements |-> Literals(node.elements[i])])
    [] node.type = "NT_SEQEXP" -> Literals(node.prefix) \o Literals(node.last)
    [] node.type = "NT_RETURNSTMT" -> Literals(node.value)
    [] node.type = "NT_EXPRESSIONSTMT" -> Literals(node.expression)
    [] node.type = "NT_VARDECL" ->
         Flatten([i \in DOMAIN node.idValuePairs |-> Literals(node.idValuePairs[i].initializer)])
    [] node.type = "NT_FUNCTION" ->
         Flatten([i \in DOMAIN node.statements |-> Literals(node.statements[i])])
    [] OTHER -> <<>>

\* the mangled name of a function definition of a module
FunctionLabel(function, moduleName) ==
  GlobalName(SegmentsOf(moduleName), function.id)
    \o Encodings(Symbols[function.id].overloadSet[function.overload].argumentTypes)

\* what a top-level body contributes to the fragment vector: for each
\* declared name with data its literals and then its own fragment, for a
\* function its literals and then its text fragment
Contribution(body, moduleName) ==
  CASE body.type = "NT_VARDECL" ->
         Flatten([i \in DOMAIN body.idValuePairs |->
                    [n \in DOMAIN Literals(body.idValuePairs[i].initializer) |->
                       [literal |-> Literals(body.idValuePairs[i].initializer)[n]]]
                    \o <<[label |-> GlobalName(SegmentsOf(moduleName),
                                               body.idValuePairs[i].id)]>>])
    [] body.type = "NT_FUNCTION" ->
         [n \in DOMAIN Literals(body) |-> [literal |-> Literals(body)[n]]]
           \o <<[label |-> FunctionLabel(body, moduleName)]>>
    [] OTHER -> <<>>

\* what a fragment is: the fragment of a literal, or the one of a global
Origin(fragment) ==
  IF /\ fragment.kind = "FK_RODATA"
     /\ Len(fragment.ir) = 1
     /\ fragment.ir[1].arg.kind \in {"STRING", "WSTRING"}
  THEN [literal |-> fragment.ir[1].arg.value]
  ELSE [label |-> fragment.label]

\* C16: the fragment vector of a file is the concatenation, in source order
\* of the bodies, of what each body produced: its literals' fragments in the
\* order the literals are met, each before the fragment of the global or the
\* function that refers to it
C16_FragmentsInProductionOrder ==
  \A i \in DOMAIN fragmentMap :
    [n \in DOMAIN fragmentMap[i].value |-> Origin(fragmentMap[i].value[n])]
      = Flatten([b \in DOMAIN asts.codes[i].bodies |->
                   Contribution(asts.codes[i].bodies[b], asts.codes[i].module)])

\* an array of a string and null, then a function with two literals
C16_Witness ==
  /\ pc = "translated"
  /\ Len(fragmentMap) = 1
  /\ [n \in DOMAIN fragmentMap[1].value |-> Origin(fragmentMap[1].value[n])]
       = << [literal |-> "one"], [label |-> "__Z1a5names"],
            [literal |-> "lit"], [literal |-> "w"], [label |-> "__Z1a1fsid"] >>

\* C17: the fragment vector of the code file X.src is put into the map under
\* the key X.s
C17_SrcFileKeyedDotS ==
  \A i \in DOMAIN fragmentMap :
    \A stem \in 1..Len(asts.codes[i].filename) :
      SubSeq(asts.codes[i].filename, stem + 1, Len(asts.codes[i].filename))
          = <<".", "s", "r", "c">>
        => fragmentMap[i].key = SubSeq(asts.codes[i].filename, 1, stem) \o <<".", "s">>

\* the function definitions among the bodies of a file
Functions(file) ==
  {file.bodies[b] : b \in {b \in DOMAIN file.bodies : file.bodies[b].type = "NT_FUNCTION"}}

\* the calls the frame of a function definition of the i-th file received
Events(i, function) ==
  (CHOOSE fragment \in {fragmentMap[i].value[n] : n \in DOMAIN fragmentMap[i].value} :
     fragment.label = FunctionLabel(function, asts.codes[i].module)).frame.events

ReturnsVoid(function) ==
  Symbols[function.id].overloadSet[function.overload].returnType.kind = "K_VOID"

C19_EntryExitOncePerFunction ==
  \A i \in DOMAIN fragmentMap :
    \A function \in Functions(asts.codes[i]) :
      LET events == Events(i, function)
      IN /\ Cardinality({n \in DOMAIN events : events[n].fn = "generateEntryExit"}) = 1
         /\ events[Len(events) - 1].fn = "generateEntryExit"
         /\ events[Len(events)].fn = "fragmentVectorInsert"

\* the slots of the imports whose table has the name
Providers(env, name) ==
  { i \in DOMAIN env.imports.keys :
      env.imports.keys[i] # NULL /\ name \in DOMAIN env.imports.values[i] }

\* What the resolution order says of a plain name: where it is found first
\* (the innermost scope that has it, else the current module, else the one
\* import that provides it), "ambiguous" when only the imports have it and
\* more than one does, "undefined" when nothing has it.
Resolution(env, name) ==
  IF \E i \in DOMAIN env.scopes : name \in DOMAIN env.scopes[i]
  THEN [found |-> "scope",
        info |-> env.scopes[CHOOSE i \in DOMAIN env.scopes :
                              /\ name \in DOMAIN env.scopes[i]
                              /\ \A j \in DOMAIN env.scopes :
                                   j > i => name \notin DOMAIN env.scopes[j]][name]]
  ELSE IF name \in DOMAIN env.currentModule
  THEN [found |-> "module", info |-> env.currentModule[name]]
  ELSE CASE Cardinality(Providers(env, name)) = 0 -> [found |-> "undefined"]
         [] Cardinality(Providers(env, name)) = 1 ->
              [found |-> "import",
               info |-> env.imports.values[CHOOSE i \in Providers(env, name) : TRUE][name]]
         [] OTHER -> [found |-> "ambiguous"]

Reported(format) ==
  \E i \in DOMAIN returned.report :
    /\ returned.report[i].fn = "reportError"
    /\ returned.report[i].format = format

\* C20: for an unqualified name environmentIsType answers from the innermost
\* scope that has the name, then from the current module's table, then from
\* the imports; it reports an ambiguity and returns INDETERMINATE exactly
\* when the name is in no scope and not in the current module and more than
\* one import provides it, reports an undefined identifier and returns
\* INDETERMINATE exactly when the name is found nowhere, and otherwise
\* returns YES iff the entry found is a type (NO if it is not), reporting
\* nothing.
C20_IsTypeResolutionOrder ==
  (pc = "isTypeReturned" /\ ~isScoped(call.token.string)) =>
    /\ (Reported("identifier is ambiguous") /\ returned.value = "INDETERMINATE")
         <=> Resolution(call.env, call.token.string).found = "ambiguous"
    /\ (Reported("undefined identifier") /\ returned.value = "INDETERMINATE")
         <=> Resolution(call.env, call.token.string).found = "undefined"
    /\ Resolution(call.env, call.token.string).found \notin {"ambiguous", "undefined"} =>
         /\ returned.report = <<>>
         /\ returned.value \in {"YES", "NO"}
         /\ returned.value = "YES"
              <=> Resolution(call.env, call.token.string).info.kind = "SK_TYPE"

\* the name is a variable in the innermost scope, a type in the scope
\* around it and in the current module, and both imports have it: NO
C20_Witness ==
  /\ pc = "isTypeReturned"
  /\ call.token.string = <<"T">>
  /\ Len(call.env.scopes) = 2
  /\ call.env.scopes[2] = (<<"T">> :> [kind |-> "SK_VAR"])
  /\ call.env.scopes[1] = (<<"T">> :> [kind |-> "SK_TYPE"])
  /\ call.env.currentModule = (<<"T">> :> [kind |-> "SK_TYPE"])
  /\ \A i \in DOMAIN call.env.imports.keys : call.env.imports.keys[i] # NULL
  /\ returned = [value |-> "NO", report |-> <<>>]

(***************************************************************************)
(* The lowering of statements and expressions, claim by claim.  The claims *)
(* are read on the text fragment translateFunction leaves for a function   *)
(* whose body is one statement.                                            *)
(***************************************************************************)
Translated == pc = "functionTranslated" /\ returned # [type |-> "SIGSEGV"]

TheStatement == call.function.statements[1]

\* the IR of the function's text fragment, which is the last fragment, and
\* of the statement: the former without the exit label that ends it
FunctionIR == returned.fragments[Len(returned.fragments)].ir

StatementIR == SubSeq(FunctionIR, 1, Len(FunctionIR) - 1)

FrameEvents == returned.fragments[Len(returned.fragments)].frame.events

ExitLabel == FunctionIR[Len(FunctionIR)].arg

Label(name) == [op |-> "LABEL", arg |-> name]

Jump(name) == [op |-> "JUMP", arg |-> name]

\* a conditional jump of the IR to a label
ConditionalJump(entry, name) ==
  /\ entry.op \in {"JL", "JLE", "JE", "JNE", "JGE", "JG"}
  /\ entry.to = name

\* the label is new where it is defined: no other LABEL entry has its name
DefinedOnce(ir, name) == Cardinality({ i \in DOMAIN ir : ir[i] = Label(name) }) = 1

\* the bytes an operand holds
OperandSize(operand) ==
  CASE operand = NULL -> 0
    [] operand.kind \in {"UBYTE", "BYTE"} -> 1
    [] operand.kind \in {"USHORT", "SHORT"} -> 2
    [] operand.kind \in {"UINT", "INT", "FLOAT"} -> 4
    [] operand.kind \in {"ULONG", "LONG", "DOUBLE", "NAME", "load"} -> 8
    [] operand.kind = "TEMP" -> operand.size

\* the statements of the given kinds in a statement that is translated:
\* none in a switch, those in loops only when intoLoops
RECURSIVE CountStmts(_, _, _)
CountStmts(stmt, types, intoLoops) ==
  IF stmt = NULL THEN 0
  ELSE (IF stmt.type \in types THEN 1 ELSE 0)
       + CASE stmt.type = "NT_COMPOUNDSTMT" ->
                FoldLeft(LAMBDA sum, child : sum + CountStmts(child, types, intoLoops),
                         0, stmt.statements)
           [] stmt.type = "NT_IFSTMT" ->
                CountStmts(stmt.thenStmt, types, intoLoops)
                + CountStmts(stmt.elseStmt, types, intoLoops)
           [] stmt.type \in {"NT_WHILESTMT", "NT_DOWHILESTMT", "NT_FORSTMT"} ->
                IF intoLoops THEN CountStmts(stmt.body, types, intoLoops) ELSE 0
           [] OTHER -> 0

JumpsTo(ir, name) == Cardinality({ i \in DOMAIN ir : ir[i] = Jump(name) })

\* C21: an if-else statement is lowered to a conditional jump to a new else
\* label, the then-branch, a JUMP to a new end label, LABEL else, the
\* else-branch, LABEL end, in this order; an if without else to a
\* conditional jump to a new end label, the then-branch, LABEL end.
C21_IfLowering ==
  (Translated /\ TheStatement.type = "NT_IFSTMT") =>
    LET ir == StatementIR
        n == Len(ir)
    IN IF TheStatement.elseStmt = NULL
       THEN /\ n >= 2
            /\ ConditionalJump(ir[1], ir[n].arg)
            /\ ir[n].op = "LABEL"
            /\ DefinedOnce(ir, ir[n].arg)
       ELSE /\ n >= 4
            /\ ir[n].op = "LABEL"
            /\ \E j \in 2..(n - 2) :
                 /\ ir[j] = Jump(ir[n].arg)
                 /\ ir[j + 1].op = "LABEL"
                 /\ ConditionalJump(ir[1], ir[j + 1].arg)
                 /\ ir[j + 1].arg # ir[n].arg
                 /\ DefinedOnce(ir, ir[j + 1].arg)
            /\ DefinedOnce(ir, ir[n].arg)

\* C22: a while statement is lowered to LABEL top, a conditional jump to
\* end, the body, JUMP top, LABEL end; the breaks of the body outside its
\* inner loops, under any ifs and compounds, are the JUMPs to end, and the
\* continues, with the loop's own jump back, the JUMPs to top.
C22_WhileLowering ==
  (Translated /\ TheStatement.type = "NT_WHILESTMT") =>
    LET ir == StatementIR
        n == Len(ir)
    IN /\ n >= 4
       /\ ir[1].op = "LABEL" /\ ir[n].op = "LABEL"
       /\ ir[1].arg # ir[n].arg
       /\ DefinedOnce(ir, ir[1].arg) /\ DefinedOnce(ir, ir[n].arg)
       /\ ConditionalJump(ir[2], ir[n].arg)
       /\ ir[n - 1] = Jump(ir[1].arg)
       /\ JumpsTo(ir, ir[n].arg) = CountStmts(TheStatement.body, {"NT_BREAKSTMT"}, FALSE)
       /\ JumpsTo(ir, ir[1].arg)
            = CountStmts(TheStatement.body, {"NT_CONTINUESTMT"}, FALSE) + 1

\* C23: a for statement is lowered inside one scope of the frame, opened
\* before the initializer and closed after the end label, to the
\* initializer if there is one, LABEL top, a conditional jump to end, the
\* body, the update if there is one, JUMP top, LABEL end; break and
\* continue in the body jump to end and to top.
C23_ForLowering ==
  (pc = "functionTranslated" /\ TheStatement.type = "NT_FORSTMT") =>
    /\ returned # [type |-> "SIGSEGV"]
    /\ LET ir == StatementIR
           n == Len(ir)
           events == FrameEvents
           opened == CHOOSE k \in DOMAIN events :
                       /\ events[k].fn = "scopeStart"
                       /\ \A j \in 1..(k - 1) : events[j].fn # "scopeStart"
       IN /\ n >= 4
          /\ events[Len(events) - 1] = [fn |-> "scopeEnd", body |-> ir]
          /\ \A k \in DOMAIN events : events[k].fn = "allocLocal" => k > opened
          /\ returned.destroyed =
               (IF TheStatement.initialize # NULL
                   /\ TheStatement.initialize.type # "NT_VARDECL"
                THEN <<returned.destroyed[1]>> ELSE <<>>)
               \o (IF TheStatement.update # NULL
                   THEN <<returned.destroyed[Len(returned.destroyed)]>> ELSE <<>>)
          /\ ir[n].op = "LABEL"
          /\ \E t \in 1..(n - 3) :
               /\ ir[t].op = "LABEL"
               /\ ir[t].arg # ir[n].arg
               /\ DefinedOnce(ir, ir[t].arg) /\ DefinedOnce(ir, ir[n].arg)
               /\ (TheStatement.initialize = NULL => t = 1)
               /\ ConditionalJump(ir[t + 1], ir[n].arg)
               /\ ir[n - 1] = Jump(ir[t].arg)
               /\ JumpsTo(ir, ir[n].arg)
                    = CountStmts(TheStatement.body, {"NT_BREAKSTMT"}, FALSE)
               /\ JumpsTo(ir, ir[t].arg)
                    = CountStmts(TheStatement.body, {"NT_CONTINUESTMT"}, FALSE) + 1

\* C24: a text fragment has one exit LABEL, its last IR entry; a return
\* statement is lowered to a JUMP to that label, after the store, through
\* the return-value access, of its value cast to the declared return type
\* when it has a value; every JUMP of the function goes to a label the
\* function defines exactly once.
C24_ReturnsJumpToTheExit ==
  Translated =>
    LET ir == FunctionIR
        returnType == call.symbols.f.overloadSet[call.function.overload].returnType
    IN /\ ir[Len(ir)].op = "LABEL"
       /\ DefinedOnce(ir, ExitLabel)
       /\ JumpsTo(ir, ExitLabel) = CountStmts(TheStatement, {"NT_RETURNSTMT"}, TRUE)
       /\ returnType.kind # "K_VOID" =>
            \A i \in DOMAIN ir :
              ir[i] = Jump(ExitLabel) =>
                /\ i > 1
                /\ ir[i - 1].op = "STORE"
                /\ ir[i - 1].to = [access |-> "allocRetVal"]
                /\ OperandSize(ir[i - 1].arg) = typeSizeof(returnType)
       /\ \A i \in DOMAIN ir : ir[i].op = "JUMP" => DefinedOnce(ir, ir[i].arg)

\* C25: a ternary expression is lowered to a conditional jump to a new else
\* label, the then-arm, the MOVE of its cast value into the result temp, a
\* JUMP to a new end label, LABEL else, the else-arm, the MOVE of its cast
\* value into the same temp, LABEL end; no temp of the condition or the
\* arms has the result temp's number, and the operand returned is the
\* result temp with the size, alignment and allocation hint of the result
\* type.
C25_TernaryLowering ==
  (Translated /\ TheStatement.type = "NT_EXPRESSIONSTMT"
              /\ TheStatement.expression.type = "NT_TERNARYEXP") =>
    LET ir == StatementIR
        n == Len(ir)
        resultType == TheStatement.expression.resultType
        result == returned.destroyed[Len(returned.destroyed)]
    IN /\ result.kind = "TEMP"
       /\ result = [kind |-> "TEMP", value |-> result.value,
                    size |-> typeSizeof(resultType),
                    alignment |-> typeAlignof(resultType),
                    hint |-> typeKindof(resultType)]
       /\ n >= 6
       /\ ir[n].op = "LABEL"
       /\ ir[n - 1].op = "MOVE" /\ ir[n - 1].to = result
       /\ OperandSize(ir[n - 1].arg) = typeSizeof(resultType)
       /\ \E j \in 2..(n - 4) :
            /\ ir[j].op = "MOVE" /\ ir[j].to = result
            /\ OperandSize(ir[j].arg) = typeSizeof(resultType)
            /\ ir[j + 1] = Jump(ir[n].arg)
            /\ ir[j + 2].op = "LABEL"
            /\ ir[j + 2].arg # ir[n].arg
            /\ ConditionalJump(ir[1], ir[j + 2].arg)
            /\ \A i \in DOMAIN ir \ {j, n - 1} :
                 (ir[i].op \in {"MOVE", "MEM_LOAD"}) => ir[i].to.value # result.value

\* C26: translateExpression gives an operand for every expression of a
\* type-checked tree: no null operand is destroyed (expression statement,
\* prefix of a sequence, sizeof, for) or becomes the argument of an entry
\* (return and initializer stores, MOVE, MEM_LOAD).
C26_NoNullOperand ==
  Translated =>
    /\ \A i \in DOMAIN returned.destroyed : returned.destroyed[i] # NULL
    /\ \A i \in DOMAIN FunctionIR :
         FunctionIR[i].op \in {"STORE", "MOVE", "MEM_LOAD"} => FunctionIR[i].arg # NULL

\* C30: the frame's scopeStart and scopeEnd calls of a function are
\* balanced and nested, every compound statement and the body of the
\* function open a scope, and every allocLocal call is made inside a scope.
C30_ScopesBalancedAroundLocals ==
  Translated =>
    LET events == FrameEvents
        Open(k) == Cardinality({ j \in 1..k : events[j].fn = "scopeStart" })
                   - Cardinality({ j \in 1..k : events[j].fn = "scopeEnd" })
    IN /\ \A k \in DOMAIN events : Open(k) >= 0
       /\ Open(Len(events)) = 0
       /\ Open(Len(events)) + Cardinality({ j \in DOMAIN events : events[j].fn = "scopeEnd" })
            = CountStmts(TheStatement, {"NT_COMPOUNDSTMT", "NT_FORSTMT"}, TRUE) + 1
       /\ \A k \in DOMAIN events : events[k].fn = "allocLocal" => Open(k) > 0

(***************************************************************************)
(* The declaration parsers, called as parseFunOrVarDecl and parseBodies    *)
(* call them.  parseType is unwritten and returns NULL for every input, so *)
(* parse() itself never gets past the type of a declaration: finishVarDecl *)
(* and finishFunDecl are entered here as parseFunOrVarDecl enters them     *)
(* once it holds a type and an id, after 'type id ,' and 'type id ('.      *)
(***************************************************************************)
\* the longest tail of a declaration, in tokens
MaxDeclLen == 5

\* the tokens after 'type id ,'
VarDeclTypes == {"TT_ID", "TT_COMMA", "TT_SEMI", "TT_EQ"}

\* the tokens after 'type id ('
FunDeclTypes == {"TT_INT", "TT_ID", "TT_COMMA", "TT_EQ", "TT_RPAREN", "TT_SEMI"}

\* the tokens after 'enum id {'
EnumDeclTypes == {"TT_ID", "TT_COMMA", "TT_EQ", "TT_RBRACE", "TT_SEMI"}

\* the tokens after 'module'
ModuleTypes == {"TT_ID", "TT_SCOPE", "TT_SEMI"}

\* the entry after its first n tokens have been lexed
RECURSIVE Lexed(_, _)
Lexed(entry, n) == IF n = 0 THEN entry ELSE lex(Lexed(entry, n - 1)).entry

\* the entry of a declaration file when a declaration parser is entered: the
\* tokens before it are lexed and the nodes its caller hands it are allocated
DeclEntry(toks, lexed, nodes) ==
  [Lexed(NewEntry(toks, FALSE, TRUE), lexed) EXCEPT
     !.heap.created = [i \in DOMAIN nodes |-> NodeId(nodes[i])]]

DeclInit ==
  /\ \/ \E r \in SeqsUpTo(VarDeclTypes, MaxDeclLen) :
          \E toks \in {<<"TT_INT", "TT_ID", "TT_COMMA">> \o r \o <<"TT_EOF">>} :
            /\ call = [fn |-> "finishVarDecl",
                       type |-> createKeywordType(TokenAt(toks, 1)),
                       names |-> <<createId(TokenAt(toks, 2))>>]
            /\ fileList = <<DeclEntry(toks, 3, <<call.type>> \o call.names)>>
     \/ \E r \in SeqsUpTo(FunDeclTypes, MaxDeclLen) :
          \E toks \in {<<"TT_INT", "TT_ID", "TT_LPAREN">> \o r \o <<"TT_EOF">>} :
            /\ call = [fn |-> "finishFunDecl",
                       returnType |-> createKeywordType(TokenAt(toks, 1)),
                       name |-> createId(TokenAt(toks, 2))]
            /\ fileList = <<DeclEntry(toks, 3, <<call.returnType, call.name>>)>>
     \/ \E r \in SeqsUpTo(EnumDeclTypes, MaxDeclLen) :
          \E toks \in {<<"TT_ENUM", "TT_ID", "TT_LBRACE">> \o r \o <<"TT_EOF">>} :
            /\ call = [fn |-> "parseEnumDecl", start |-> TokenAt(toks, 1)]
            /\ fileList = <<DeclEntry(toks, 1, <<>>)>>
     \/ \E r \in SeqsUpTo(ModuleTypes, MaxDeclLen) :
          \E toks \in {<<"TT_MODULE">> \o r \o <<"TT_EOF">>} :
            /\ call = [fn |-> "parseModule"]
            /\ fileList = <<DeclEntry(toks, 0, <<>>)>>
  /\ pc = "decl"
  /\ idx = 1
  /\ errored = FALSE
  /\ retval = 0
  /\ module = NULL
  /\ imports = <<>>
  /\ bodies = <<>>
  /\ last = NoLast
  /\ asts = <<>>
  /\ fragmentMap = <<>>
  /\ returned = <<>>

\* the parser of the call runs on the entry and returns
DeclApply(ret) ==
  /\ fileList' = [fileList EXCEPT ![idx] = ret.entry]
  /\ last' = [parser |-> call.fn, start |-> NoToken, node |-> ret.node, before |-> cur,
              pass |-> 0]
  /\ pc' = "declReturned"
  /\ UNCHANGED <<idx, errored, retval, module, imports, bodies>>
  /\ UNCHANGED translateVars

DeclFinishVarDecl ==
  /\ pc = "decl"
  /\ call.fn = "finishVarDecl"
  /\ DeclApply(finishVarDecl(cur, call.type, call.names))

DeclFinishFunDecl ==
  /\ pc = "decl"
  /\ call.fn = "finishFunDecl"
  /\ DeclApply(finishFunDecl(cur, call.returnType, call.name))

DeclParseEnumDecl ==
  /\ pc = "decl"
  /\ call.fn = "parseEnumDecl"
  /\ DeclApply(parseEnumDecl(cur, call.start))

DeclParseModule ==
  /\ pc = "decl"
  /\ call.fn = "parseModule"
  /\ DeclApply(parseModule(cur))

DeclNext ==
  \/ DeclFinishVarDecl
  \/ DeclFinishFunDecl
  \/ DeclParseEnumDecl
  \/ DeclParseModule

DeclSpec == DeclInit /\ [][DeclNext]_vars

(***************************************************************************)
(* The trees the declaration parsers return, claim by claim                *)
(***************************************************************************)
\* a declaration parser has returned
DeclReturned(parser) == pc = "declReturned" /\ last.parser = parser

\* the positions from first to the token before the cursor that hold an id
IdPositions(entry, first) ==
  SelectSeq([i \in 1..(Cursor(entry) - first) |-> first + i - 1],
            LAMBDA p : entry.inputTokens[p] = "TT_ID")

\* the Id nodes of those ids, in source order
DeclaredIds(entry, first) ==
  [i \in DOMAIN IdPositions(entry, first) |->
     createId(TokenAt(entry.inputTokens, IdPositions(entry, first)[i]))]

RECURSIVE Owned(_)
Owned(node) ==
  IF node = NULL THEN <<>>
  ELSE <<NodeId(node)>>
         \o Flatten([i \in DOMAIN Children(node) |-> Owned(Children(node)[i])])

NoDuplicates(seq) == \A i, j \in DOMAIN seq : seq[i] = seq[j] => i = j

Elements(seq) == {seq[i] : i \in DOMAIN seq}

\* the nodes allocated for an entry that are neither in the tree nor freed
Leaked(entry, node) ==
  Elements(entry.heap.created) \ (Elements(Owned(node)) \cup Elements(entry.heap.freed))

====
